---- MODULE Spec2Model ----
(***************************************************************************)
(* Model of ox's Keystore module (Web3 Secret Storage, version 3):         *)
(* key derivation (pbkdf2, pbkdf2Async, scrypt, scryptAsync), encrypt and  *)
(* decrypt, as used by the usdc-transfer applications.                     *)
(*                                                                         *)
(* Byte arrays are sequences of 0..255.  A hex string is a sequence of     *)
(* one-character strings, without the "0x" prefix.  A value a caller may   *)
(* pass either as Bytes or as Hex is a record [type, value].               *)
(***************************************************************************)
EXTENDS Integers, Sequences, FiniteSets, TLC

VARIABLES keys, pending, store, last, evm, aptos

vars == <<keys, pending, store, last, evm, aptos>>

(***************************************************************************)
(* Values and results                                                      *)
(***************************************************************************)
undefined == [type |-> "undefined", value |-> <<>>]

AsBytes(b) == [type |-> "Bytes", value |-> b]

AsHex(h) == [type |-> "Hex", value |-> h]

Ok(v) == [ok |-> TRUE, value |-> v, error |-> ""]

Err(e) == [ok |-> FALSE, value |-> <<>>, error |-> e]

(***************************************************************************)
(* ox Bytes / Hex helpers (Bytes.js, Hex.js of the same package)           *)
(***************************************************************************)
HexDigits == <<"0", "1", "2", "3", "4", "5", "6", "7",
               "8", "9", "a", "b", "c", "d", "e", "f">>

\* internal.charCodeToBase16: 0-9, A-F and a-f are digits; anything else is
\* undefined (-1 here).
Base16 ==
    [c \in {"0", "1", "2", "3", "4", "5", "6", "7", "8", "9"} |->
        CHOOSE n \in 0..9 : HexDigits[n + 1] = c]
    @@ [c \in {"a", "b", "c", "d", "e", "f"} |->
        CHOOSE n \in 10..15 : HexDigits[n + 1] = c]
    @@ ("A" :> 10) @@ ("B" :> 11) @@ ("C" :> 12)
    @@ ("D" :> 13) @@ ("E" :> 14) @@ ("F" :> 15)

charCodeToBase16(c) == IF c \in DOMAIN Base16 THEN Base16[c] ELSE -1

\* Bytes.toHex(b).slice(2): two lowercase digits per byte.
Bytes_toHex(b) ==
    [i \in 1..(2 * Len(b)) |->
        IF i % 2 = 1 THEN HexDigits[(b[(i + 1) \div 2] \div 16) + 1]
                     ELSE HexDigits[(b[i \div 2] % 16) + 1]]

\* Bytes.fromHex(`0x${h}`): an odd-length string is left-padded with "0";
\* a character that is no hex digit throws.
Bytes_fromHex(h) ==
    LET hexString == IF Len(h) % 2 = 1 THEN <<"0">> \o h ELSE h
        length == Len(hexString) \div 2
    IN  IF \E j \in 1..Len(hexString) : charCodeToBase16(hexString[j]) = -1
        THEN Err("Invalid byte sequence")
        ELSE Ok([i \in 1..length |->
                    charCodeToBase16(hexString[2 * i - 1]) * 16
                    + charCodeToBase16(hexString[2 * i])])

\* Bytes.from(value): a Uint8Array is returned as is, a hex string is decoded.
Bytes_from(v) ==
    IF v.type = "Hex" THEN Bytes_fromHex(v.value) ELSE Ok(v.value)

\* Bytes.slice(value, start, end), not strict: throws when start > 0 lies
\* beyond the last byte, and otherwise returns the bytes [start, end) that exist.
Bytes_slice(value, start, end) ==
    IF start > 0 /\ start > Len(value) - 1
    THEN Err("SliceOffsetOutOfBoundsError")
    ELSE Ok(SubSeq(value, start + 1, IF end < Len(value) THEN end ELSE Len(value)))

Bytes_concat(a, b) == a \o b

Bytes_isEqual(a, b) == a = b

\* Bytes.random(length): the values the random source may return here.
NumRandom == 2

RandomBytes(length, v) == [i \in 1..length |-> 16 * v + i]

Bytes_random(length) == {RandomBytes(length, v) : v \in 1..NumRandom}

\* crypto.randomUUID(): the identifiers the random source may return here.
crypto_randomUUID == {<<"uuid", v>> : v \in 1..NumRandom}

(***************************************************************************)
(* Cryptographic primitives (@noble/hashes, @noble/ciphers, Hash.js).      *)
(* They are idealised: the hash is collision-free on the messages of the   *)
(* model, the key stream and the derived keys depend on every input.       *)
(***************************************************************************)
RECURSIVE Mix(_, _)
Mix(s, j) == IF j > Len(s) THEN 0 ELSE (2 * j + 1) * (s[j] + 1) + Mix(s, j + 1)

RECURSIVE Xor(_, _)
Xor(a, b) ==
    IF a = 0 THEN b
    ELSE IF b = 0 THEN a
    ELSE ((a + b) % 2) + 2 * Xor(a \div 2, b \div 2)

\* Hash.keccak256(message): 32 bytes.
Hash_keccak256(m) ==
    [i \in 1..32 |->
        IF i = 32 THEN (Len(m) * 5 + 1) % 256
        ELSE IF i <= Len(m) THEN (m[i] * 7 + i) % 256
        ELSE (i * 3) % 256]

\* The key stream of AES-128-CTR for (key, iv), byte i.
KeyStream(key, iv, i) ==
    ((Mix(key, 1) % 251) * 3 + (Mix(iv, 1) % 241) * 5 + i * 37 + 101) % 256

\* Mutant of ctr: a cipher that works on whole blocks, the last one padded.
ctr_padded(key, iv, data) ==
    IF Len(key) \notin {16, 24, 32} THEN Err("invalid key length")
    ELSE IF Len(iv) # 16 THEN Err("invalid iv length")
    ELSE Ok([i \in 1..(16 * ((Len(data) \div 16) + 1)) |->
                Xor(IF i <= Len(data) THEN data[i] ELSE 0, KeyStream(key, iv, i))])

\* ctr(key, iv).encrypt(data) and .decrypt(data): the same transformation.
\* The cipher rejects a key that is not 16, 24 or 32 bytes and an iv that is
\* not 16 bytes.
ctr(key, iv, data) ==
    IF Len(key) \notin {16, 24, 32} THEN Err("invalid key length")
    ELSE IF Len(iv) # 16 THEN Err("invalid iv length")
    ELSE Ok([i \in 1..Len(data) |-> Xor(data[i], KeyStream(key, iv, i))])

\* pbkdf2_noble(sha256, password, salt, {c, dkLen}) and its async twin.
pbkdf2_noble(password, salt, c, dkLen) ==
    LET seed == Mix(password, 1) * 31 + Mix(salt, 1) * 13 + (c % 251) * 3 + 17
    IN  [i \in 1..dkLen |-> (seed + i * 29) % 256]

\* scrypt_noble(password, salt, {N, dkLen, r, p}) and its async twin.
scrypt_noble(password, salt, N, dkLen, r, p) ==
    LET seed == Mix(password, 1) * 19 + Mix(salt, 1) * 23 + (N % 251) * 7
                + r * 11 + p * 41 + 5
    IN  [i \in 1..dkLen |-> (seed + i * 43) % 256]

(***************************************************************************)
(* Keystore.js                                                             *)
(***************************************************************************)
\* iterations = 262_144 and n = 262_144, the defaults of the derivations.
DefaultCost == 262144

\* The scrypt block size and parallelisation, fixed in the code.
ScryptP == 8

ScryptR == 1

\* An optional number or string is <<>> (undefined) or <<v>>.
OrDefault(opt, default) == IF opt = <<>> THEN default ELSE opt[1]

\* `x ? ... : ...` on an optional Bytes | Hex value: a Uint8Array and a
\* "0x..." string are truthy whatever their length; only undefined is falsy.
Truthy(v) == v.type # "undefined"

\* Mutant of defineKey: the caller's iv is ignored.
defineKey_random(key, rndIv) ==
    Ok([iv |-> rndIv, key |-> key.key, kdfparams |-> key.kdfparams, kdf |-> key.kdf])

\* defineKey(key): the iv is the caller's, as bytes, or 16 random bytes.
defineKey(key, rndIv) ==
    LET iv == IF Truthy(key.iv) THEN Bytes_from(key.iv) ELSE Ok(rndIv)
    IN  IF ~iv.ok THEN Err(iv.error)
        ELSE Ok([iv |-> iv.value, key |-> key.key,
                 kdfparams |-> key.kdfparams, kdf |-> key.kdf])

\* Mutant of SaltOf: a fresh salt is drawn even when one is supplied.
SaltOf_random(options, rndSalt) == Ok(rndSalt)

\* Mutant of SaltOf: a salt of length zero counts as no salt.
SaltOf_emptyIsMissing(options, rndSalt) ==
    IF Truthy(options.salt)
    THEN LET salt == Bytes_from(options.salt)
         IN  IF salt.ok /\ Len(salt.value) = 0 THEN Ok(rndSalt) ELSE salt
    ELSE Ok(rndSalt)

\* The salt a derivation consumes: options.salt as bytes, or 32 random bytes.
SaltOf(options, rndSalt) ==
    IF Truthy(options.salt) THEN Bytes_from(options.salt) ELSE Ok(rndSalt)

\* Mutant of pbkdf2Async_call: the iterations option is dropped.
pbkdf2Async_call_default(options, rndSalt) ==
    LET salt == SaltOf(options, rndSalt)
    IN  IF ~salt.ok THEN Err(salt.error)
        ELSE Ok([iv |-> options.iv,
                 iterations |-> DefaultCost,
                 password |-> options.password,
                 salt |-> salt.value])

\* pbkdf2Async up to its await: the locals that pbkdf2Async_noble is called with.
pbkdf2Async_call(options, rndSalt) ==
    LET salt == SaltOf(options, rndSalt)
    IN  IF ~salt.ok THEN Err(salt.error)
        ELSE Ok([iv |-> options.iv,
                 iterations |-> OrDefault(options.cost, DefaultCost),
                 password |-> options.password,
                 salt |-> salt.value])

\* Mutant of pbkdf2Async_resume: the locals are kept in a place that the
\* calls share, so a call resumes with those of the call pending in slot A.
pbkdf2Async_resume_shared(locals, rndIv) ==
    LET shared == IF pending["A"].fn = "pbkdf2Async" THEN pending["A"].call.value
                  ELSE locals
        key == Bytes_toHex(pbkdf2_noble(shared.password, shared.salt,
                                        shared.iterations, 32))
    IN  defineKey([iv |-> shared.iv,
                   key |-> key,
                   kdfparams |-> [c |-> shared.iterations,
                                  dklen |-> 32,
                                  prf |-> "hmac-sha256",
                                  salt |-> Bytes_toHex(shared.salt)],
                   kdf |-> "pbkdf2"], rndIv)

\* pbkdf2Async after its await: the key built from the derived bytes.
pbkdf2Async_resume(locals, rndIv) ==
    LET key == Bytes_toHex(pbkdf2_noble(locals.password, locals.salt,
                                        locals.iterations, 32))
    IN  defineKey([iv |-> locals.iv,
                   key |-> key,
                   kdfparams |-> [c |-> locals.iterations,
                                  dklen |-> 32,
                                  prf |-> "hmac-sha256",
                                  salt |-> Bytes_toHex(locals.salt)],
                   kdf |-> "pbkdf2"], rndIv)

\* Mutant of pbkdf2: kdfparams records the default count, not the one used.
pbkdf2_recordsDefault(options, rndSalt, rndIv) ==
    LET iterations == OrDefault(options.cost, DefaultCost)
        salt == SaltOf(options, rndSalt)
    IN  IF ~salt.ok THEN Err(salt.error)
        ELSE LET key == Bytes_toHex(pbkdf2_noble(options.password, salt.value,
                                                 iterations, 32))
             IN  defineKey([iv |-> options.iv,
                            key |-> key,
                            kdfparams |-> [c |-> DefaultCost,
                                           dklen |-> 32,
                                           prf |-> "hmac-sha256",
                                           salt |-> Bytes_toHex(salt.value)],
                            kdf |-> "pbkdf2"], rndIv)

\* pbkdf2(options).
pbkdf2(options, rndSalt, rndIv) ==
    LET iterations == OrDefault(options.cost, DefaultCost)
        salt == SaltOf(options, rndSalt)
    IN  IF ~salt.ok THEN Err(salt.error)
        ELSE LET key == Bytes_toHex(pbkdf2_noble(options.password, salt.value,
                                                 iterations, 32))
             IN  defineKey([iv |-> options.iv,
                            key |-> key,
                            kdfparams |-> [c |-> iterations,
                                           dklen |-> 32,
                                           prf |-> "hmac-sha256",
                                           salt |-> Bytes_toHex(salt.value)],
                            kdf |-> "pbkdf2"], rndIv)

\* Mutant of scryptAsync_call: r and p are taken from the options when present.
scryptAsync_call_callerRP(options, rndSalt) ==
    LET salt == SaltOf(options, rndSalt)
    IN  IF ~salt.ok THEN Err(salt.error)
        ELSE Ok([iv |-> options.iv,
                 n |-> OrDefault(options.cost, DefaultCost),
                 password |-> options.password,
                 p |-> IF "p" \in DOMAIN options THEN options.p ELSE ScryptP,
                 r |-> IF "r" \in DOMAIN options THEN options.r ELSE ScryptR,
                 salt |-> salt.value])

\* scryptAsync up to its await.
scryptAsync_call(options, rndSalt) ==
    LET salt == SaltOf(options, rndSalt)
    IN  IF ~salt.ok THEN Err(salt.error)
        ELSE Ok([iv |-> options.iv,
                 n |-> OrDefault(options.cost, DefaultCost),
                 password |-> options.password,
                 p |-> ScryptP,
                 r |-> ScryptR,
                 salt |-> salt.value])

\* scryptAsync after its await.
scryptAsync_resume(locals, rndIv) ==
    LET key == Bytes_toHex(scrypt_noble(locals.password, locals.salt,
                                        locals.n, 32, locals.r, locals.p))
    IN  defineKey([iv |-> locals.iv,
                   key |-> key,
                   kdfparams |-> [dklen |-> 32,
                                  n |-> locals.n,
                                  p |-> locals.p,
                                  r |-> locals.r,
                                  salt |-> Bytes_toHex(locals.salt)],
                   kdf |-> "scrypt"], rndIv)

\* Mutant of scrypt: 16 bytes are derived.
scrypt_dkLen16(options, rndSalt, rndIv) ==
    LET n == OrDefault(options.cost, DefaultCost)
        p == ScryptP
        r == ScryptR
        salt == SaltOf(options, rndSalt)
    IN  IF ~salt.ok THEN Err(salt.error)
        ELSE LET key == Bytes_toHex(scrypt_noble(options.password, salt.value,
                                                 n, 16, r, p))
             IN  defineKey([iv |-> options.iv,
                            key |-> key,
                            kdfparams |-> [dklen |-> 16,
                                           n |-> n,
                                           p |-> p,
                                           r |-> r,
                                           salt |-> Bytes_toHex(salt.value)],
                            kdf |-> "scrypt"], rndIv)

\* scrypt(options).
scrypt(options, rndSalt, rndIv) ==
    LET n == OrDefault(options.cost, DefaultCost)
        p == ScryptP
        r == ScryptR
        salt == SaltOf(options, rndSalt)
    IN  IF ~salt.ok THEN Err(salt.error)
        ELSE LET key == Bytes_toHex(scrypt_noble(options.password, salt.value,
                                                 n, 32, r, p))
             IN  defineKey([iv |-> options.iv,
                            key |-> key,
                            kdfparams |-> [dklen |-> 32,
                                           n |-> n,
                                           p |-> p,
                                           r |-> r,
                                           salt |-> Bytes_toHex(salt.value)],
                            kdf |-> "scrypt"], rndIv)

\* Mutant of encrypt: the record is stamped with another version.
encrypt_version4(privateKey, key, id, rndId) ==
    LET id_ == OrDefault(id, rndId)
        key_ == Bytes_fromHex(key.key)
        value_ == Bytes_from(privateKey)
    IN  IF ~key_.ok THEN Err(key_.error)
        ELSE IF ~value_.ok THEN Err(value_.error)
        ELSE
        LET encKey == Bytes_slice(key_.value, 0, 16)
            macKey == Bytes_slice(key_.value, 16, 32)
        IN  IF ~encKey.ok THEN Err(encKey.error)
            ELSE IF ~macKey.ok THEN Err(macKey.error)
            ELSE
            LET ciphertext == ctr(encKey.value, key.iv, value_.value)
            IN  IF ~ciphertext.ok THEN Err(ciphertext.error)
                ELSE
                LET mac == Hash_keccak256(Bytes_concat(macKey.value, ciphertext.value))
                IN  Ok([crypto |-> [cipher |-> "aes-128-ctr",
                                    ciphertext |-> Bytes_toHex(ciphertext.value),
                                    cipherparams |-> [iv |-> Bytes_toHex(key.iv)],
                                    kdf |-> key.kdf,
                                    kdfparams |-> key.kdfparams,
                                    mac |-> Bytes_toHex(mac)],
                        id |-> id_,
                        version |-> 4])

\* Mutant of encrypt: the MAC is computed over the ciphertext followed by the MAC key.
encrypt_macKeyLast(privateKey, key, id, rndId) ==
    LET id_ == OrDefault(id, rndId)
        key_ == Bytes_fromHex(key.key)
        value_ == Bytes_from(privateKey)
    IN  IF ~key_.ok THEN Err(key_.error)
        ELSE IF ~value_.ok THEN Err(value_.error)
        ELSE
        LET encKey == Bytes_slice(key_.value, 0, 16)
            macKey == Bytes_slice(key_.value, 16, 32)
        IN  IF ~encKey.ok THEN Err(encKey.error)
            ELSE IF ~macKey.ok THEN Err(macKey.error)
            ELSE
            LET ciphertext == ctr(encKey.value, key.iv, value_.value)
            IN  IF ~ciphertext.ok THEN Err(ciphertext.error)
                ELSE
                LET mac == Hash_keccak256(Bytes_concat(ciphertext.value, macKey.value))
                IN  Ok([crypto |-> [cipher |-> "aes-128-ctr",
                                    ciphertext |-> Bytes_toHex(ciphertext.value),
                                    cipherparams |-> [iv |-> Bytes_toHex(key.iv)],
                                    kdf |-> key.kdf,
                                    kdfparams |-> key.kdfparams,
                                    mac |-> Bytes_toHex(mac)],
                        id |-> id_,
                        version |-> 3])

\* Mutant of encrypt: every call draws an iv of its own.
encrypt_freshIv(privateKey, key, id, rndId) ==
    LET id_ == OrDefault(id, rndId)
        key_ == Bytes_fromHex(key.key)
        value_ == Bytes_from(privateKey)
    IN  IF ~key_.ok THEN Err(key_.error)
        ELSE IF ~value_.ok THEN Err(value_.error)
        ELSE
        LET encKey == Bytes_slice(key_.value, 0, 16)
            macKey == Bytes_slice(key_.value, 16, 32)
        IN  IF ~encKey.ok THEN Err(encKey.error)
            ELSE IF ~macKey.ok THEN Err(macKey.error)
            ELSE
            LET iv == RandomBytes(16, rndId[2])
                ciphertext == ctr(encKey.value, iv, value_.value)
            IN  IF ~ciphertext.ok THEN Err(ciphertext.error)
                ELSE
                LET mac == Hash_keccak256(Bytes_concat(macKey.value, ciphertext.value))
                IN  Ok([crypto |-> [cipher |-> "aes-128-ctr",
                                    ciphertext |-> Bytes_toHex(ciphertext.value),
                                    cipherparams |-> [iv |-> Bytes_toHex(iv)],
                                    kdf |-> key.kdf,
                                    kdfparams |-> key.kdfparams,
                                    mac |-> Bytes_toHex(mac)],
                        id |-> id_,
                        version |-> 3])

\* encrypt(privateKey, key, {id}): the keystore, or the error thrown.
encrypt(privateKey, key, id, rndId) ==
    LET id_ == OrDefault(id, rndId)
        key_ == Bytes_fromHex(key.key)
        value_ == Bytes_from(privateKey)
    IN  IF ~key_.ok THEN Err(key_.error)
        ELSE IF ~value_.ok THEN Err(value_.error)
        ELSE
        LET encKey == Bytes_slice(key_.value, 0, 16)
            macKey == Bytes_slice(key_.value, 16, 32)
        IN  IF ~encKey.ok THEN Err(encKey.error)
            ELSE IF ~macKey.ok THEN Err(macKey.error)
            ELSE
            LET ciphertext == ctr(encKey.value, key.iv, value_.value)
            IN  IF ~ciphertext.ok THEN Err(ciphertext.error)
                ELSE
                LET mac == Hash_keccak256(Bytes_concat(macKey.value, ciphertext.value))
                IN  Ok([crypto |-> [cipher |-> "aes-128-ctr",
                                    ciphertext |-> Bytes_toHex(ciphertext.value),
                                    cipherparams |-> [iv |-> Bytes_toHex(key.iv)],
                                    kdf |-> key.kdf,
                                    kdfparams |-> key.kdfparams,
                                    mac |-> Bytes_toHex(mac)],
                        id |-> id_,
                        version |-> 3])

\* What a decrypt call did: its outcome and the library calls it made, in order.
Threw(e, calls) == [ok |-> FALSE, value |-> undefined, error |-> e, calls |-> calls]

Returned(v, calls) == [ok |-> TRUE, value |-> v, error |-> "", calls |-> calls]

\* Mutant of decrypt: the cipher key is cut from the wrong half of the material.
decrypt_wrongSplit(keystore, key, as) ==
    LET key_ == Bytes_fromHex(key.key)
    IN  IF ~key_.ok THEN Threw(key_.error, <<>>)
        ELSE
        LET encKey == Bytes_slice(key_.value, 16, 32)
            macKey == Bytes_slice(key_.value, 16, 32)
            ciphertext == Bytes_fromHex(keystore.crypto.ciphertext)
        IN  IF ~encKey.ok THEN Threw(encKey.error, <<>>)
            ELSE IF ~macKey.ok THEN Threw(macKey.error, <<>>)
            ELSE IF ~ciphertext.ok THEN Threw(ciphertext.error, <<>>)
            ELSE
            LET mac == Hash_keccak256(Bytes_concat(macKey.value, ciphertext.value))
                stored == Bytes_fromHex(keystore.crypto.mac)
            IN  IF ~stored.ok THEN Threw(stored.error, <<"keccak256">>)
                ELSE IF ~Bytes_isEqual(mac, stored.value)
                THEN Threw("corrupt keystore", <<"keccak256", "isEqual">>)
                ELSE
                LET data == ctr(encKey.value, key.iv, ciphertext.value)
                    calls == <<"keccak256", "isEqual", "ctr">>
                IN  IF ~data.ok THEN Threw(data.error, calls)
                    ELSE IF as = "Hex"
                    THEN Returned(AsHex(Bytes_toHex(data.value)), calls)
                    ELSE Returned(AsBytes(data.value), calls)

\* Mutant of decrypt: the cipher runs first and the MAC comparison is dropped.
decrypt_noVerify(keystore, key, as) ==
    LET key_ == Bytes_fromHex(key.key)
    IN  IF ~key_.ok THEN Threw(key_.error, <<>>)
        ELSE
        LET encKey == Bytes_slice(key_.value, 0, 16)
            macKey == Bytes_slice(key_.value, 16, 32)
            ciphertext == Bytes_fromHex(keystore.crypto.ciphertext)
        IN  IF ~encKey.ok THEN Threw(encKey.error, <<>>)
            ELSE IF ~macKey.ok THEN Threw(macKey.error, <<>>)
            ELSE IF ~ciphertext.ok THEN Threw(ciphertext.error, <<>>)
            ELSE
            LET data == ctr(encKey.value, key.iv, ciphertext.value)
                calls == <<"ctr", "keccak256">>
            IN  IF ~data.ok THEN Threw(data.error, <<"ctr">>)
                ELSE IF as = "Hex"
                THEN Returned(AsHex(Bytes_toHex(data.value)), calls)
                ELSE Returned(AsBytes(data.value), calls)

\* Mutant of decrypt: the cipher runs with the iv written in the record.
decrypt_recordIv(keystore, key, as) ==
    LET key_ == Bytes_fromHex(key.key)
    IN  IF ~key_.ok THEN Threw(key_.error, <<>>)
        ELSE
        LET encKey == Bytes_slice(key_.value, 0, 16)
            macKey == Bytes_slice(key_.value, 16, 32)
            ciphertext == Bytes_fromHex(keystore.crypto.ciphertext)
        IN  IF ~encKey.ok THEN Threw(encKey.error, <<>>)
            ELSE IF ~macKey.ok THEN Threw(macKey.error, <<>>)
            ELSE IF ~ciphertext.ok THEN Threw(ciphertext.error, <<>>)
            ELSE
            LET mac == Hash_keccak256(Bytes_concat(macKey.value, ciphertext.value))
                stored == Bytes_fromHex(keystore.crypto.mac)
            IN  IF ~stored.ok THEN Threw(stored.error, <<"keccak256">>)
                ELSE IF ~Bytes_isEqual(mac, stored.value)
                THEN Threw("corrupt keystore", <<"keccak256", "isEqual">>)
                ELSE
                LET data == ctr(encKey.value,
                               Bytes_fromHex(keystore.crypto.cipherparams.iv).value,
                               ciphertext.value)
                    calls == <<"keccak256", "isEqual", "ctr">>
                IN  IF ~data.ok THEN Threw(data.error, calls)
                    ELSE IF as = "Hex"
                    THEN Returned(AsHex(Bytes_toHex(data.value)), calls)
                    ELSE Returned(AsBytes(data.value), calls)

\* Mutant of decrypt: the key's kdf and kdfparams must be the record's.
decrypt_checksKdf(keystore, key, as) ==
    LET key_ == Bytes_fromHex(key.key)
    IN  IF key.kdf # keystore.crypto.kdf \/ key.kdfparams # keystore.crypto.kdfparams
        THEN Threw("kdf mismatch", <<>>)
        ELSE IF ~key_.ok THEN Threw(key_.error, <<>>)
        ELSE
        LET encKey == Bytes_slice(key_.value, 0, 16)
            macKey == Bytes_slice(key_.value, 16, 32)
            ciphertext == Bytes_fromHex(keystore.crypto.ciphertext)
        IN  IF ~encKey.ok THEN Threw(encKey.error, <<>>)
            ELSE IF ~macKey.ok THEN Threw(macKey.error, <<>>)
            ELSE IF ~ciphertext.ok THEN Threw(ciphertext.error, <<>>)
            ELSE
            LET mac == Hash_keccak256(Bytes_concat(macKey.value, ciphertext.value))
                stored == Bytes_fromHex(keystore.crypto.mac)
            IN  IF ~stored.ok THEN Threw(stored.error, <<"keccak256">>)
                ELSE IF ~Bytes_isEqual(mac, stored.value)
                THEN Threw("corrupt keystore", <<"keccak256", "isEqual">>)
                ELSE
                LET data == ctr(encKey.value, key.iv, ciphertext.value)
                    calls == <<"keccak256", "isEqual", "ctr">>
                IN  IF ~data.ok THEN Threw(data.error, calls)
                    ELSE IF as = "Hex"
                    THEN Returned(AsHex(Bytes_toHex(data.value)), calls)
                    ELSE Returned(AsBytes(data.value), calls)

\* decrypt(keystore, key, {as}): the private key, or the error thrown.
decrypt(keystore, key, as) ==
    LET key_ == Bytes_fromHex(key.key)
    IN  IF ~key_.ok THEN Threw(key_.error, <<>>)
        ELSE
        LET encKey == Bytes_slice(key_.value, 0, 16)
            macKey == Bytes_slice(key_.value, 16, 32)
            ciphertext == Bytes_fromHex(keystore.crypto.ciphertext)
        IN  IF ~encKey.ok THEN Threw(encKey.error, <<>>)
            ELSE IF ~macKey.ok THEN Threw(macKey.error, <<>>)
            ELSE IF ~ciphertext.ok THEN Threw(ciphertext.error, <<>>)
            ELSE
            LET mac == Hash_keccak256(Bytes_concat(macKey.value, ciphertext.value))
                stored == Bytes_fromHex(keystore.crypto.mac)
            IN  IF ~stored.ok THEN Threw(stored.error, <<"keccak256">>)
                ELSE IF ~Bytes_isEqual(mac, stored.value)
                THEN Threw("corrupt keystore", <<"keccak256", "isEqual">>)
                ELSE
                LET data == ctr(encKey.value, key.iv, ciphertext.value)
                    calls == <<"keccak256", "isEqual", "ctr">>
                IN  IF ~data.ok THEN Threw(data.error, calls)
                    ELSE IF as = "Hex"
                    THEN Returned(AsHex(Bytes_toHex(data.value)), calls)
                    ELSE Returned(AsBytes(data.value), calls)

(***************************************************************************)
(* The state: two key slots (A encrypts, A or B decrypts), the derivations *)
(* that are pending, the keystore at rest, and the last decrypt call.      *)
(***************************************************************************)
Slots == {"A", "B"}

NoOptions == [password |-> <<>>, salt |-> undefined, iv |-> undefined, cost |-> <<>>]

\* rnd: what the call read from the random source (<<>>: not read).
NoRnd == [salt |-> <<>>, iv |-> <<>>]

NoKey == [fn |-> "none", options |-> NoOptions, rnd |-> NoRnd, result |-> Err("none")]

NoPending == [fn |-> "none", options |-> NoOptions, rnd |-> NoRnd, call |-> Err("none")]

NoStore == [privateKey |-> undefined, id |-> <<>>, key |-> Err("none"),
            result |-> Err("none"), keystore |-> Err("none"), tampered |-> "none"]

NoCall == [keystore |-> Err("none"), slot |-> "none", as |-> "none",
           key |-> Err("none"), result |-> Threw("none", <<>>)]

\* Inputs.  A password is the byte sequence of its characters.
Passwords == {<<>>, <<112>>}

Costs == {<<>>, <<2>>}

ZeroIv == [i \in 1..16 |-> 0]

\* "0x" followed by sixteen times "0A": a 16-byte iv written in upper case.
UpperIv == [i \in 1..32 |-> IF i % 2 = 1 THEN "0" ELSE "A"]

\* Options of the derivations checked on their own.
KdfOptions ==
    [password : Passwords,
     salt : {undefined, AsHex(<<"A", "b">>), AsBytes(<<>>)},
     iv : {undefined, AsHex(UpperIv), AsBytes(<<9>>)},
     cost : Costs]

\* Options of the key that encrypts, and of the key that decrypts.
EncryptOptions ==
    [password : {<<112>>},
     salt : {undefined},
     iv : {undefined, AsHex(UpperIv), AsBytes(<<9>>)},
     cost : {<<2>>}]

DecryptOptions ==
    [password : Passwords,
     salt : {AsBytes(RandomBytes(32, 1)), AsHex(<<"A", "b">>)},
     iv : {AsBytes(RandomBytes(16, 1)), AsBytes(<<9>>)},
     cost : Costs]

PrivateKeys == {AsBytes(<<>>), AsBytes(<<1, 2>>), AsHex(<<"A", "1", "b">>)}

Ids == {<<>>, <<<<"my-id", 0>>>>}

(***************************************************************************)
(* The pages.  evm is the state of the EVM transfer page (index.tsx) and   *)
(* aptos that of the Aptos page (page.tsx): the values kept with useState, *)
(* the promises their handlers await and the timers they started.  A value *)
(* that may be undefined or null is <<>> or <<v>>.  The fields named after *)
(* the useState values hold what was last given to their setters; rendered *)
(* holds the values of the last render, which are the ones a handler, a    *)
(* closure of that render, reads.  An update made after an await is        *)
(* rendered in a later step; an update made by an event handler before its *)
(* first await is rendered with the event.                                 *)
(***************************************************************************)
\* Example(): useState<Address>(), useState<Hash>(), useState<TransactionReceipt>().
\* sends and lookups are the pending walletClient.sendTransaction and
\* publicClient.waitForTransactionReceipt calls; sent counts the hashes the
\* wallet has returned; effect is the hash of the render whose effect has not
\* run yet; stored and resolved record the hashes given to setHash and the
\* hashes whose lookup resolved.
EvmLoaded ==
    [account |-> <<>>, hash |-> <<>>, receipt |-> <<>>,
     rendered |-> [account |-> <<>>, hash |-> <<>>, receipt |-> <<>>],
     effect |-> <<>>,
     connects |-> 0, sends |-> <<>>, lookups |-> {}, sent |-> 0,
     stored |-> <<>>, resolved |-> {}]

\* HomeContent(): useState(false), useState(null), useState(''), useState(''),
\* useState('').  mounted: the effect of the first render has run; petra:
\* window.aptos is there; calls: the handler calls that wait at an await;
\* timers: the pending setTimeout callbacks, each with the message its handler
\* wrote; submitted: the transactions given to signAndSubmitTransaction;
\* hashes: how many of them the wallet has submitted; step: the handler step
\* taken last.  rendered holds the values of the last render that a handler
\* reads.
AptosLoaded ==
    [mounted |-> FALSE, petra |-> FALSE,
     connected |-> FALSE, account |-> <<>>,
     amount |-> "", recipientAddress |-> "", txStatus |-> "",
     rendered |-> [connected |-> FALSE, account |-> <<>>,
                   amount |-> "", recipientAddress |-> ""],
     calls |-> <<>>, timers |-> <<>>, submitted |-> <<>>, hashes |-> 0,
     step |-> "load"]

Init ==
    /\ keys = [s \in Slots |-> NoKey]
    /\ pending = [s \in Slots |-> NoPending]
    /\ store = NoStore
    /\ last = NoCall
    /\ evm = EvmLoaded
    /\ aptos = AptosLoaded

\* The random source is read only when the option is not given.
Read(option, rnd) == IF option = undefined THEN rnd ELSE <<>>

Free(slot) == keys[slot] = NoKey /\ pending[slot] = NoPending

\* A call of pbkdf2(options) or scrypt(options).  defineKey, which reads the
\* random iv, is reached only when the salt could be decoded.
Derive(slot, fn, options) ==
    /\ Free(slot)
    /\ \E rndSalt \in Bytes_random(32), rndIv \in Bytes_random(16) :
          keys' = [keys EXCEPT ![slot] =
                     [fn |-> fn, options |-> options,
                      rnd |-> [salt |-> Read(options.salt, rndSalt),
                               iv |-> IF SaltOf(options, rndSalt).ok
                                      THEN Read(options.iv, rndIv)
                                      ELSE <<>>],
                      result |-> IF fn = "pbkdf2"
                                 THEN pbkdf2(options, rndSalt, rndIv)
                                 ELSE scrypt(options, rndSalt, rndIv)]]
    /\ UNCHANGED <<pending, store, last, evm, aptos>>

\* A call of pbkdf2Async(options) or scryptAsync(options), up to its await.
AsyncStart(slot, fn, options) ==
    /\ Free(slot)
    /\ \E rndSalt \in Bytes_random(32) :
          LET call == IF fn = "pbkdf2Async"
                      THEN pbkdf2Async_call(options, rndSalt)
                      ELSE scryptAsync_call(options, rndSalt)
          IN  IF call.ok
              THEN /\ pending' = [pending EXCEPT ![slot] =
                                    [fn |-> fn, options |-> options,
                                     rnd |-> [salt |-> Read(options.salt, rndSalt),
                                              iv |-> <<>>],
                                     call |-> call]]
                   /\ UNCHANGED keys
              ELSE /\ keys' = [keys EXCEPT ![slot] =
                                 [fn |-> fn, options |-> options, rnd |-> NoRnd,
                                  result |-> Err(call.error)]]
                   /\ UNCHANGED pending
    /\ UNCHANGED <<store, last, evm, aptos>>

\* Mutant of AsyncResolve: the pending derivation is dropped without a result.
AsyncResolve_abandon(slot) ==
    /\ pending[slot] # NoPending
    /\ pending' = [pending EXCEPT ![slot] = NoPending]
    /\ UNCHANGED <<keys, store, last, evm, aptos>>

\* The awaited derivation completes and the async function returns its key.
AsyncResolve(slot) ==
    /\ pending[slot] # NoPending
    /\ \E rndIv \in Bytes_random(16) :
          keys' = [keys EXCEPT ![slot] =
                     [fn |-> pending[slot].fn, options |-> pending[slot].options,
                      rnd |-> [pending[slot].rnd EXCEPT
                                  !.iv = Read(pending[slot].options.iv, rndIv)],
                      result |-> IF pending[slot].fn = "pbkdf2Async"
                                 THEN pbkdf2Async_resume(pending[slot].call.value, rndIv)
                                 ELSE scryptAsync_resume(pending[slot].call.value, rndIv)]]
    /\ pending' = [pending EXCEPT ![slot] = NoPending]
    /\ UNCHANGED <<store, last, evm, aptos>>

\* The material of key A with one byte changed, or cut, or extended.
Altered(material, how) ==
    CASE how = "encKey" -> [material EXCEPT ![1] = IF @ = "0" THEN "1" ELSE "0"]
      [] how = "macKey" -> [material EXCEPT ![64] = IF @ = "0" THEN "1" ELSE "0"]
      [] how = "16 bytes" -> SubSeq(material, 1, 32)
      [] how = "24 bytes" -> SubSeq(material, 1, 48)
      [] how = "40 bytes" -> material \o SubSeq(material, 1, 16)
      [] OTHER -> material

KeyVariants == {"encKey", "macKey", "16 bytes", "24 bytes", "40 bytes", "iv"}

\* The caller builds a value of type Key by hand from key A.
SupplyKey(slot, how) ==
    /\ Free(slot)
    /\ store.tampered = "none"
    /\ keys["A"].result.ok
    /\ LET k == keys["A"].result.value
       IN  keys' = [keys EXCEPT ![slot] =
                      [fn |-> "literal", options |-> NoOptions, rnd |-> NoRnd,
                       result |-> Ok([iv |-> IF how = "iv" THEN ZeroIv ELSE k.iv,
                                      key |-> Altered(k.key, how),
                                      kdfparams |-> k.kdfparams,
                                      kdf |-> k.kdf])]]
    /\ UNCHANGED <<pending, store, last, evm, aptos>>

\* A call of encrypt(privateKey, key, {id}) with key A.
Encrypt(privateKey, id) ==
    /\ store = NoStore
    /\ keys["A"].result.ok
    /\ \E rndId \in crypto_randomUUID :
          LET r == encrypt(privateKey, keys["A"].result.value, id, rndId)
          IN  store' = [privateKey |-> privateKey, id |-> id,
                        key |-> keys["A"].result,
                        result |-> r, keystore |-> r, tampered |-> "none"]
    /\ UNCHANGED <<keys, pending, last, evm, aptos>>

\* A hex field of the record at rest, changed to a different string.
Changed(h, how) ==
    CASE how = "upper" ->
            [i \in 1..Len(h) |->
                CASE h[i] = "a" -> "A" [] h[i] = "b" -> "B" [] h[i] = "c" -> "C"
                  [] h[i] = "d" -> "D" [] h[i] = "e" -> "E" [] h[i] = "f" -> "F"
                  [] OTHER -> h[i]]
      [] how = "strip" -> IF Len(h) > 0 /\ h[1] = "0" THEN Tail(h) ELSE h
      [] how = "digit" -> IF Len(h) > 0
                          THEN [h EXCEPT ![Len(h)] = IF @ = "0" THEN "1" ELSE "0"]
                          ELSE <<"0", "0">>
      [] how = "append" -> h \o <<"0", "0">>
      [] how = "cut" -> IF Len(h) >= 2 THEN SubSeq(h, 1, Len(h) - 2) ELSE h
      [] how = "not hex" -> h \o <<"z", "z">>
      [] OTHER -> h

Changes == {"upper", "strip", "digit", "append", "cut", "not hex"}

\* The record is modified where it is kept, between encrypt and decrypt.
Tamper(field, how) ==
    /\ store.result.ok
    /\ store.tampered = "none"
    /\ last = NoCall
    /\ Free("B")
    /\ LET c == store.keystore.value.crypto
           new == IF field = "ciphertext"
                  THEN [c EXCEPT !.ciphertext = Changed(@, how)]
                  ELSE [c EXCEPT !.mac = Changed(@, how)]
       IN  /\ new # c
           /\ store' = [store EXCEPT !.keystore.value.crypto = new,
                                     !.tampered = field]
    /\ UNCHANGED <<keys, pending, last, evm, aptos>>

\* A call of decrypt(keystore, key, {as}) with the key of a slot.
Decrypt(slot, as) ==
    /\ last = NoCall
    /\ store.result.ok
    /\ keys[slot].result.ok
    /\ last' = [keystore |-> store.keystore, slot |-> slot, as |-> as,
                key |-> keys[slot].result,
                result |-> decrypt(store.keystore.value, keys[slot].result.value, as)]
    /\ UNCHANGED <<keys, pending, store, evm, aptos>>

Next ==
    \/ \E fn \in {"pbkdf2", "scrypt"} :
          \/ \E o \in EncryptOptions : Derive("A", fn, o)
          \/ \E o \in DecryptOptions : store.tampered = "none" /\ Derive("B", fn, o)
    \/ \E how \in KeyVariants : SupplyKey("B", how)
    \/ \E pk \in PrivateKeys, id \in Ids : Encrypt(pk, id)
    \/ \E field \in {"ciphertext", "mac"}, how \in Changes : Tamper(field, how)
    \/ \E slot \in Slots, as \in {"Hex", "Bytes"} : Decrypt(slot, as)

Spec == Init /\ [][Next]_vars

\* The derivations on their own, blocking and non-blocking.
Repeated ==
    {o \in KdfOptions : /\ keys["A"] # NoKey
                        /\ o.password = keys["A"].options.password
                        /\ o.salt = keys["A"].options.salt
                        /\ o.cost = keys["A"].options.cost}

NextKdf ==
    \/ \E fn \in {"pbkdf2", "scrypt"} :
          \/ \E o \in KdfOptions : Derive("A", fn, o)
          \/ \E o \in Repeated : Derive("B", fn, o)
    \/ \E fn \in {"pbkdf2Async", "scryptAsync"} :
          \/ \E o \in KdfOptions : AsyncStart("A", fn, o)
          \/ \E o \in Repeated : AsyncStart("B", fn, o)
    \/ \E slot \in Slots : AsyncResolve(slot)

SpecKdf == Init /\ [][NextKdf]_vars

(***************************************************************************)
(* The record at rest and the key handed to decrypt, field by field.       *)
(***************************************************************************)
\* The kdf tag and kdfparams of the other derivation.
OtherKdf(kdf) == IF kdf = "pbkdf2" THEN "scrypt" ELSE "pbkdf2"

OtherKdfparams(kdf) ==
    IF kdf = "pbkdf2"
    THEN [dklen |-> 32, n |-> 4, p |-> ScryptP, r |-> ScryptR, salt |-> <<"0", "0">>]
    ELSE [c |-> 4, dklen |-> 32, prf |-> "hmac-sha256", salt |-> <<"0", "0">>]

KeyIvs == {"same", "zero", "1 byte"}

KeyKdfs == {"same", "other"}

\* The caller hands over a key with the material of key A, and with A's iv,
\* kdf and kdfparams or with others.
SupplyKeyAs(slot, iv, kdf) ==
    /\ Free(slot)
    /\ keys["A"].result.ok
    /\ LET k == keys["A"].result.value
       IN  keys' = [keys EXCEPT ![slot] =
                      [fn |-> "literal", options |-> NoOptions, rnd |-> NoRnd,
                       result |-> Ok([iv |-> CASE iv = "zero" -> ZeroIv
                                               [] iv = "1 byte" -> <<9>>
                                               [] OTHER -> k.iv,
                                      key |-> k.key,
                                      kdfparams |-> IF kdf = "other"
                                                    THEN OtherKdfparams(k.kdf)
                                                    ELSE k.kdfparams,
                                      kdf |-> IF kdf = "other"
                                              THEN OtherKdf(k.kdf)
                                              ELSE k.kdf])]]
    /\ UNCHANGED <<pending, store, last, evm, aptos>>

\* A record as encrypt wrote it, with one field given another value.
Rewritten(ks, field) ==
    CASE field = "version" -> [ks EXCEPT !.version = 4]
      [] field = "cipher" -> [ks EXCEPT !.crypto.cipher = "aes-256-cbc"]
      [] field = "kdf" -> [ks EXCEPT !.crypto.kdf = "argon2"]
      [] field = "kdfparams" ->
            [ks EXCEPT !.crypto.kdf = OtherKdf(@),
                       !.crypto.kdfparams = OtherKdfparams(ks.crypto.kdf)]
      [] field = "cipherparams.iv" ->
            [ks EXCEPT !.crypto.cipherparams.iv = Bytes_toHex(ZeroIv)]
      [] field = "mac 31 bytes" ->
            [ks EXCEPT !.crypto.mac = SubSeq(@, 1, Len(@) - 2)]
      [] field = "mac 33 bytes" ->
            [ks EXCEPT !.crypto.mac = @ \o <<"0", "0">>]
      [] OTHER -> ks

RecordFields == {"version", "cipher", "kdf", "kdfparams", "cipherparams.iv",
                 "mac 31 bytes", "mac 33 bytes"}

\* The record is rewritten where it is kept, between encrypt and decrypt.
Rewrite(field) ==
    /\ store.result.ok
    /\ store.tampered = "none"
    /\ last = NoCall
    /\ store' = [store EXCEPT !.keystore.value = Rewritten(@, field),
                              !.tampered = field]
    /\ UNCHANGED <<keys, pending, last, evm, aptos>>

RecordOptions ==
    [password : {<<112>>},
     salt : {undefined},
     iv : {undefined, AsHex(UpperIv)},
     cost : {<<2>>}]

NextRecord ==
    \/ \E fn \in {"pbkdf2", "scrypt"}, o \in RecordOptions : Derive("A", fn, o)
    \/ \E iv \in KeyIvs, kdf \in KeyKdfs : SupplyKeyAs("B", iv, kdf)
    \/ \E pk \in PrivateKeys : Encrypt(pk, <<<<"my-id", 0>>>>)
    \/ \E field \in RecordFields : Rewrite(field)
    \/ \E slot \in Slots, as \in {"Hex", "Bytes"} : Decrypt(slot, as)

SpecRecord == Init /\ [][NextRecord]_vars
(***************************************************************************)
(* scrypt and scryptAsync called with options that carry r and p.          *)
(***************************************************************************)
\* The options object with two more properties, r and p.
WithRP(o, r, p) ==
    [password |-> o.password, salt |-> o.salt, iv |-> o.iv, cost |-> o.cost,
     r |-> r, p |-> p]

CallerRPs == {<<4, 2>>, <<8, 1>>}

ScryptOptions ==
    LET plain == [password : Passwords,
                  salt : {undefined, AsHex(<<"A", "b">>)},
                  iv : {undefined, AsHex(UpperIv)},
                  cost : Costs]
    IN  plain \cup {WithRP(o, rp[1], rp[2]) : o \in plain, rp \in CallerRPs}

NextScrypt ==
    \/ \E o \in ScryptOptions : Derive("A", "scrypt", o)
    \/ \E o \in ScryptOptions : AsyncStart("A", "scryptAsync", o)
    \/ AsyncResolve("A")

SpecScrypt == Init /\ [][NextScrypt]_vars

(***************************************************************************)
(* Calls in flight together: two non-blocking derivations, encrypt and     *)
(* decrypt, their steps interleaved in any order.                          *)
(***************************************************************************)
CallOptions ==
    [password : {<<112>>},
     salt : {undefined, AsHex(<<"A", "b">>), AsHex(<<"z", "z">>)},
     iv : {undefined, AsHex(UpperIv)},
     cost : {<<2>>}]

NextCalls ==
    \/ \E slot \in Slots, fn \in {"pbkdf2Async", "scryptAsync"}, o \in CallOptions :
          AsyncStart(slot, fn, o)
    \/ \E slot \in Slots : AsyncResolve(slot)
    \/ Encrypt(AsBytes(<<1, 2>>), <<>>)
    \/ \E slot \in Slots : Decrypt(slot, "Hex")

SpecCalls == Init /\ [][NextCalls]_vars

\* Non-blocking derivations from their call to their settlement, the salt
\* being the caller's.
SettleOptions ==
    [password : {<<112>>},
     salt : {AsHex(<<"A", "b">>), AsHex(<<"z", "z">>)},
     iv : {undefined, AsHex(UpperIv)},
     cost : {<<2>>}]

NextSettle ==
    \/ \E slot \in Slots, fn \in {"pbkdf2Async", "scryptAsync"}, o \in SettleOptions :
          AsyncStart(slot, fn, o)
    \/ \E slot \in Slots : AsyncResolve(slot)

\* The promise awaited by a pending derivation settles: the KDF runs a finite
\* number of rounds for its cost parameter, handing control back in between.
SpecSettle ==
    Init /\ [][NextSettle]_vars /\ \A slot \in Slots : WF_vars(AsyncResolve(slot))

(***************************************************************************)
(* encrypt called twice with the same private key and the same key.        *)
(***************************************************************************)
\* A second call of encrypt(privateKey, key, {id}) with the arguments of the
\* first; its record replaces the one that is kept.
EncryptAgain ==
    /\ store.result.ok
    /\ store.tampered = "none"
    /\ last = NoCall
    /\ \E rndId \in crypto_randomUUID :
          store' = [store EXCEPT
                       !.keystore = encrypt(store.privateKey, store.key.value,
                                            store.id, rndId),
                       !.tampered = "again"]
    /\ UNCHANGED <<keys, pending, last, evm, aptos>>

NextAgain ==
    \/ \E fn \in {"pbkdf2", "scrypt"}, o \in RecordOptions : Derive("A", fn, o)
    \/ \E pk \in PrivateKeys, id \in Ids : Encrypt(pk, id)
    \/ EncryptAgain
    \/ \E as \in {"Hex", "Bytes"} : Decrypt("A", as)

SpecAgain == Init /\ [][NextAgain]_vars

(***************************************************************************)
(* The EVM transfer page (usdc-transfer/src/index.tsx).                    *)
(***************************************************************************)
\* How many sendTransaction calls and how many connect calls are made.
MaxSends == 2

MaxConnects == 1

\* The hashes the wallet returns, one for every transaction it sends.
Hashes == <<"0xh1", "0xh2", "0xh3", "0xh4">>

\* What walletClient.requestAddresses() resolves with.
EvmAddresses == {<<>>, <<"0xa11ce">>}

\* The texts of the two inputs.
EvmRecipients == {"0x0000000000000000000000000000000000000b0b", "bob"}

EvmValues == {"5", "", "1.5"}

\* BigInt(value) of a text: an integer, 0n for the empty text, or a SyntaxError.
BigInt(value) ==
    CASE value = "5" -> Ok(5)
      [] value = "" -> Ok(0)
      [] OTHER -> Err("SyntaxError")

\* encodeFunctionData throws for a recipient that is no address.
isAddress(to) == to = "0x0000000000000000000000000000000000000b0b"

\* The receipt publicClient.waitForTransactionReceipt({ hash }) resolves with.
ReceiptOf(hash) == [transactionHash |-> hash, status |-> "success"]

Remove(seq, i) == SubSeq(seq, 1, i - 1) \o SubSeq(seq, i + 1, Len(seq))

\* connect(), up to its await.
connect ==
    /\ evm.connects < MaxConnects
    /\ evm' = [evm EXCEPT !.connects = @ + 1]
    /\ UNCHANGED <<keys, pending, store, last, aptos>>

\* connect() after its await: setAccount(address), the first address or
\* undefined.
connect_resolve(addresses) ==
    /\ evm.connects > 0
    /\ evm' = [evm EXCEPT !.connects = @ - 1, !.account = addresses]
    /\ UNCHANGED <<keys, pending, store, last, aptos>>

\* walletClient.requestAddresses() rejects: connect() throws.
connect_reject ==
    /\ evm.connects > 0
    /\ evm' = [evm EXCEPT !.connects = @ - 1]
    /\ UNCHANGED <<keys, pending, store, last, aptos>>

\* sendTransaction(), up to its await: it returns without an account, throws
\* for a value or a recipient that cannot be encoded, and else asks the
\* wallet to send the transfer.  account is the account of the last render.
sendTransaction(to, value) ==
    /\ evm.sent + Len(evm.sends) < MaxSends
    /\ evm.rendered.account # <<>>
    /\ BigInt(value).ok
    /\ isAddress(to)
    /\ evm' = [evm EXCEPT !.sends = Append(@,
                  [account |-> evm.rendered.account[1], to |-> to,
                   valueInWei |-> BigInt(value).value * 10^6])]
    /\ UNCHANGED <<keys, pending, store, last, aptos>>

\* sendTransaction() after its await: setHash(hash).
sendTransaction_resolve(i) ==
    /\ i \in 1..Len(evm.sends)
    /\ LET hash == Hashes[evm.sent + 1]
       IN  evm' = [evm EXCEPT !.sends = Remove(@, i),
                              !.sent = @ + 1,
                              !.hash = <<hash>>,
                              !.stored = Append(@, hash)]
    /\ UNCHANGED <<keys, pending, store, last, aptos>>

\* walletClient.sendTransaction rejects: sendTransaction() throws.
sendTransaction_reject(i) ==
    /\ i \in 1..Len(evm.sends)
    /\ evm' = [evm EXCEPT !.sends = Remove(@, i)]
    /\ UNCHANGED <<keys, pending, store, last, aptos>>

\* The values given to the setters.
EvmState == [account |-> evm.account, hash |-> evm.hash, receipt |-> evm.receipt]

\* Example() renders with the values given to the setters since the last
\* render; the effect of the render before has run.  The effect of this
\* render is to run when its dependency, hash, has changed.
render ==
    /\ evm.effect = <<>>
    /\ evm.rendered # EvmState
    /\ evm' = [evm EXCEPT !.rendered = EvmState,
                          !.effect = IF evm.hash # evm.rendered.hash
                                     THEN evm.hash ELSE <<>>]
    /\ UNCHANGED <<keys, pending, store, last, aptos>>

\* The effect of the last render runs, up to its await: with a hash it
\* starts to wait for the receipt.
useEffect ==
    /\ evm.effect # <<>>
    /\ evm' = [evm EXCEPT !.effect = <<>>,
                          !.lookups = @ \cup {evm.effect[1]}]
    /\ UNCHANGED <<keys, pending, store, last, aptos>>

\* The effect after its await: setReceipt(receipt).
useEffect_resolve(hash) ==
    /\ hash \in evm.lookups
    /\ evm' = [evm EXCEPT !.lookups = @ \ {hash},
                          !.resolved = @ \cup {hash},
                          !.receipt = <<ReceiptOf(hash)>>]
    /\ UNCHANGED <<keys, pending, store, last, aptos>>

\* publicClient.waitForTransactionReceipt rejects: nothing is stored.
useEffect_reject(hash) ==
    /\ hash \in evm.lookups
    /\ evm' = [evm EXCEPT !.lookups = @ \ {hash}]
    /\ UNCHANGED <<keys, pending, store, last, aptos>>

NextEvm ==
    \/ connect
    \/ \E addresses \in EvmAddresses : connect_resolve(addresses)
    \/ connect_reject
    \/ \E to \in EvmRecipients, value \in EvmValues : sendTransaction(to, value)
    \/ \E i \in 1..MaxSends : sendTransaction_resolve(i)
    \/ \E i \in 1..MaxSends : sendTransaction_reject(i)
    \/ render
    \/ useEffect
    \/ \E hash \in evm.lookups : useEffect_resolve(hash)
    \/ \E hash \in evm.lookups : useEffect_reject(hash)

SpecEvm == Init /\ [][NextEvm]_vars

(***************************************************************************)
(* The Aptos transfer page (usdc-transfer-aptos/src/app/page.tsx).         *)
(* The handlers are taken as callable in every state of the mounted page:  *)
(* the disabled attributes of the buttons and inputs restrict the user,    *)
(* not the handlers.  State updates made between two awaits are committed  *)
(* together (React batches them), so they are one step; the page renders   *)
(* them in a later step, HomeContent_render.                               *)
(***************************************************************************)
\* How many awaits and timers are pending at once, and how many transactions
\* are handed to the wallet.
MaxPending == 2

MaxSubmits == 1

\* The hashes of the transactions the wallet submits.
AptosHashes == <<"0xt1", "0xt2", "0xt3", "0xt4">>

\* What window.aptos.account() and window.aptos.connect() resolve with:
\* nothing, or the account.
PetraAccount == [address |-> "0xa11ce", publicKey |-> "0xpk"]

Responses == {<<>>, <<PetraAccount>>}

\* The errors a rejected call throws: message is undefined or a text.
Errors ==
    {[message |-> <<>>],
     [message |-> <<"">>],
     [message |-> <<"User rejected the request">>],
     [message |-> <<"insufficient balance for fee">>],
     [message |-> <<"Insufficient funds">>]}

\* The texts of the two inputs.
Amounts == {"", "1.5", "2"}

Recipients == {"", "0xb0b"}

\* error.message?.includes(part), for the messages of Errors.
includes(message, part) ==
    /\ message # <<>>
    /\ \/ part = "User rejected" /\ message[1] = "User rejected the request"
       \/ part = "insufficient" /\ message[1] = "insufficient balance for fee"

\* error.message || 'Unknown error'
OrUnknown(message) ==
    IF message = <<>> \/ message[1] = "" THEN "Unknown error" ELSE message[1]

\* (parseFloat(amount) * 1_000_000).toString()
ToSmallestUnit(amount) ==
    CASE amount = "1.5" -> "1500000"
      [] amount = "2" -> "2000000"
      [] OTHER -> "NaN"

\* The status the catch block of handleConnect sets.
handleConnect_catch(error) ==
    IF includes(error.message, "User rejected")
    THEN "Connection rejected by user"
    ELSE "Connection failed: " \o OrUnknown(error.message)

\* The status the catch block of handleSendTokens sets.
handleSendTokens_catch(error) ==
    IF includes(error.message, "User rejected")
    THEN "Transaction rejected by user"
    ELSE IF includes(error.message, "insufficient")
    THEN "Insufficient balance or gas fees"
    ELSE "Transaction failed: " \o OrUnknown(error.message)

\* Mutant of handleSendTokens_refuses: the recipient is not looked at.
handleSendTokens_refuses_noRecipient(a) ==
    ~a.connected \/ a.account = <<>> \/ a.amount = ""

\* The condition of handleSendTokens' first statement.
handleSendTokens_refuses(a) ==
    ~a.connected \/ a.account = <<>> \/ a.amount = "" \/ a.recipientAddress = ""

Awaiting(at, hash) == [at |-> at, hash |-> hash]

Timer(by, message) == [by |-> by, message |-> message]

Pending == Len(aptos.calls) + Len(aptos.timers)

\* The effect of the first render: checkConnection(), up to its await.
checkConnection(petra) ==
    /\ ~aptos.mounted
    /\ aptos' = [aptos EXCEPT !.mounted = TRUE,
                              !.petra = petra,
                              !.calls = IF petra
                                        THEN Append(@, Awaiting("account", ""))
                                        ELSE @,
                              !.step = "checkConnection"]
    /\ UNCHANGED <<keys, pending, store, last, evm>>

\* checkConnection() after its await.
checkConnection_resolve(i, response) ==
    /\ i \in 1..Len(aptos.calls)
    /\ aptos.calls[i].at = "account"
    /\ aptos' = [aptos EXCEPT !.calls = Remove(@, i),
                              !.account = IF response # <<>> THEN response ELSE @,
                              !.connected = IF response # <<>> THEN TRUE ELSE @,
                              !.step = "checkConnection_resolve"]
    /\ UNCHANGED <<keys, pending, store, last, evm>>

\* window.aptos.account() rejects: the catch block only logs.
checkConnection_reject(i) ==
    /\ i \in 1..Len(aptos.calls)
    /\ aptos.calls[i].at = "account"
    /\ aptos' = [aptos EXCEPT !.calls = Remove(@, i),
                              !.step = "checkConnection_reject"]
    /\ UNCHANGED <<keys, pending, store, last, evm>>

\* handleConnect(), up to its return or its await.
handleConnect ==
    /\ aptos.mounted
    /\ IF ~aptos.petra
       THEN aptos' = [aptos EXCEPT
                !.txStatus = "Petra Wallet not detected. Please install Petra Wallet extension and refresh the page.",
                !.step = "handleConnect_undetected"]
       ELSE /\ Pending < MaxPending
            /\ aptos' = [aptos EXCEPT
                   !.txStatus = "Connecting...",
                   !.calls = Append(@, Awaiting("connect", "")),
                   !.step = "handleConnect"]
    /\ UNCHANGED <<keys, pending, store, last, evm>>

\* Mutant of handleConnect_resolve: the account is stored, connected is not set.
handleConnect_resolve_accountOnly(i, response) ==
    /\ i \in 1..Len(aptos.calls)
    /\ aptos.calls[i].at = "connect"
    /\ aptos' = [aptos EXCEPT !.calls = Remove(@, i),
                              !.account = response,
                              !.step = "handleConnect_resolve"]
    /\ UNCHANGED <<keys, pending, store, last, evm>>

\* handleConnect() after its await.
handleConnect_resolve(i, response) ==
    /\ i \in 1..Len(aptos.calls)
    /\ aptos.calls[i].at = "connect"
    /\ IF response # <<>>
       THEN aptos' = [aptos EXCEPT
                !.calls = Remove(@, i),
                !.account = response,
                !.connected = TRUE,
                !.txStatus = "Successfully connected to Petra Wallet!",
                !.timers = Append(@, Timer("handleConnect",
                               "Successfully connected to Petra Wallet!")),
                !.step = "handleConnect_resolve"]
       ELSE aptos' = [aptos EXCEPT !.calls = Remove(@, i),
                                   !.step = "handleConnect_resolve"]
    /\ UNCHANGED <<keys, pending, store, last, evm>>

\* window.aptos.connect() rejects.
handleConnect_reject(i, error) ==
    /\ i \in 1..Len(aptos.calls)
    /\ aptos.calls[i].at = "connect"
    /\ aptos' = [aptos EXCEPT !.calls = Remove(@, i),
                              !.txStatus = handleConnect_catch(error),
                              !.step = "handleConnect_reject"]
    /\ UNCHANGED <<keys, pending, store, last, evm>>

\* The statements of handleDisconnect after the await.
Disconnected(a) ==
    [a EXCEPT !.account = <<>>,
              !.connected = FALSE,
              !.txStatus = "Disconnected from wallet",
              !.timers = Append(@, Timer("handleDisconnect",
                             "Disconnected from wallet"))]

\* handleDisconnect(), up to its await, or to its end without a wallet.
handleDisconnect ==
    /\ aptos.mounted
    /\ Pending < MaxPending
    /\ IF aptos.petra
       THEN aptos' = [aptos EXCEPT !.calls = Append(@, Awaiting("disconnect", "")),
                                   !.step = "handleDisconnect"]
       ELSE aptos' = [Disconnected(aptos) EXCEPT
                !.rendered.account = <<>>,
                !.rendered.connected = FALSE,
                !.step = "handleDisconnect_resolve"]
    /\ UNCHANGED <<keys, pending, store, last, evm>>

\* handleDisconnect() after its await.
handleDisconnect_resolve(i) ==
    /\ i \in 1..Len(aptos.calls)
    /\ aptos.calls[i].at = "disconnect"
    /\ aptos' = [Disconnected(aptos) EXCEPT !.calls = Remove(@, i),
                                            !.step = "handleDisconnect_resolve"]
    /\ UNCHANGED <<keys, pending, store, last, evm>>

\* window.aptos.disconnect() rejects.
handleDisconnect_reject(i) ==
    /\ i \in 1..Len(aptos.calls)
    /\ aptos.calls[i].at = "disconnect"
    /\ aptos' = [aptos EXCEPT !.calls = Remove(@, i),
                              !.txStatus = "Disconnect failed",
                              !.step = "handleDisconnect_reject"]
    /\ UNCHANGED <<keys, pending, store, last, evm>>

\* handleSendTokens(), up to its return or its first await: connected,
\* account, amount and recipientAddress are those of the last render.
\* submitted records the transaction with the values the handler saw.
handleSendTokens ==
    /\ aptos.mounted
    /\ IF handleSendTokens_refuses(aptos.rendered)
       THEN aptos' = [aptos EXCEPT
                !.txStatus = "Please connect wallet and fill all fields",
                !.step = "handleSendTokens_refuse"]
       ELSE /\ Pending < MaxPending
            /\ Len(aptos.submitted) < MaxSubmits
            /\ aptos' = [aptos EXCEPT
                   !.txStatus = "Please approve the transaction in your wallet...",
                   !.submitted = Append(@,
                       [function |-> "0x1::primary_fungible_store::transfer",
                        arguments |-> <<"USDC_ADDRESS",
                                        aptos.rendered.recipientAddress,
                                        ToSmallestUnit(aptos.rendered.amount)>>,
                        connected |-> aptos.rendered.connected,
                        account |-> aptos.rendered.account,
                        amount |-> aptos.rendered.amount,
                        recipientAddress |-> aptos.rendered.recipientAddress]),
                   !.calls = Append(@, Awaiting("signAndSubmitTransaction", "")),
                   !.step = "handleSendTokens"]
    /\ UNCHANGED <<keys, pending, store, last, evm>>

\* handleSendTokens() after its first await, up to its second.
signAndSubmitTransaction_resolve(i) ==
    /\ i \in 1..Len(aptos.calls)
    /\ aptos.calls[i].at = "signAndSubmitTransaction"
    /\ aptos' = [aptos EXCEPT
           !.calls[i] = Awaiting("waitForTransaction", AptosHashes[aptos.hashes + 1]),
           !.hashes = @ + 1,
           !.txStatus = "Transaction submitted. Waiting for confirmation...",
           !.step = "signAndSubmitTransaction_resolve"]
    /\ UNCHANGED <<keys, pending, store, last, evm>>

\* window.aptos.signAndSubmitTransaction rejects.
signAndSubmitTransaction_reject(i, error) ==
    /\ i \in 1..Len(aptos.calls)
    /\ aptos.calls[i].at = "signAndSubmitTransaction"
    /\ aptos' = [aptos EXCEPT !.calls = Remove(@, i),
                              !.txStatus = handleSendTokens_catch(error),
                              !.step = "signAndSubmitTransaction_reject"]
    /\ UNCHANGED <<keys, pending, store, last, evm>>

\* handleSendTokens() after its second await: the form is cleared.
waitForTransaction_resolve(i) ==
    /\ i \in 1..Len(aptos.calls)
    /\ aptos.calls[i].at = "waitForTransaction"
    /\ aptos' = [aptos EXCEPT
           !.calls = Remove(@, i),
           !.txStatus = "Transaction successful! Hash: " \o aptos.calls[i].hash,
           !.amount = "",
           !.recipientAddress = "",
           !.step = "waitForTransaction_resolve"]
    /\ UNCHANGED <<keys, pending, store, last, evm>>

\* aptos.waitForTransaction rejects.
waitForTransaction_reject(i, error) ==
    /\ i \in 1..Len(aptos.calls)
    /\ aptos.calls[i].at = "waitForTransaction"
    /\ aptos' = [aptos EXCEPT !.calls = Remove(@, i),
                              !.txStatus = handleSendTokens_catch(error),
                              !.step = "waitForTransaction_reject"]
    /\ UNCHANGED <<keys, pending, store, last, evm>>

\* The callback of the oldest setTimeout runs: setTxStatus('').
setTimeout_callback ==
    /\ aptos.timers # <<>>
    /\ aptos' = [aptos EXCEPT !.timers = Tail(@),
                              !.txStatus = "",
                              !.step = "setTimeout"]
    /\ UNCHANGED <<keys, pending, store, last, evm>>

\* The onChange handlers of the two inputs.
setAmount(value) ==
    /\ aptos.mounted
    /\ aptos' = [aptos EXCEPT !.amount = value,
                              !.rendered.amount = value,
                              !.step = "setAmount"]
    /\ UNCHANGED <<keys, pending, store, last, evm>>

setRecipientAddress(value) ==
    /\ aptos.mounted
    /\ aptos' = [aptos EXCEPT !.recipientAddress = value,
                              !.rendered.recipientAddress = value,
                              !.step = "setRecipientAddress"]
    /\ UNCHANGED <<keys, pending, store, last, evm>>

\* The values given to the setters, as far as a handler reads them.
AptosState ==
    [connected |-> aptos.connected, account |-> aptos.account,
     amount |-> aptos.amount, recipientAddress |-> aptos.recipientAddress]

\* HomeContent() renders with the values given to the setters since the
\* last render.
HomeContent_render ==
    /\ aptos.rendered # AptosState
    /\ aptos' = [aptos EXCEPT !.rendered = AptosState, !.step = "render"]
    /\ UNCHANGED <<keys, pending, store, last, evm>>

NextAptos ==
    \/ \E petra \in BOOLEAN : checkConnection(petra)
    \/ \E i \in 1..MaxPending, response \in Responses : checkConnection_resolve(i, response)
    \/ \E i \in 1..MaxPending : checkConnection_reject(i)
    \/ handleConnect
    \/ \E i \in 1..MaxPending, response \in Responses : handleConnect_resolve(i, response)
    \/ \E i \in 1..MaxPending, error \in Errors : handleConnect_reject(i, error)
    \/ handleDisconnect
    \/ \E i \in 1..MaxPending : handleDisconnect_resolve(i)
    \/ \E i \in 1..MaxPending : handleDisconnect_reject(i)
    \/ handleSendTokens
    \/ \E i \in 1..MaxPending : signAndSubmitTransaction_resolve(i)
    \/ \E i \in 1..MaxPending, error \in Errors : signAndSubmitTransaction_reject(i, error)
    \/ \E i \in 1..MaxPending : waitForTransaction_resolve(i)
    \/ \E i \in 1..MaxPending, error \in Errors : waitForTransaction_reject(i, error)
    \/ setTimeout_callback
    \/ \E value \in Amounts : setAmount(value)
    \/ \E value \in Recipients : setRecipientAddress(value)
    \/ HomeContent_render

SpecAptos == Init /\ [][NextAptos]_vars

(***************************************************************************)
(* Properties                                                              *)
(***************************************************************************)
Derivations == {"pbkdf2", "pbkdf2Async", "scrypt", "scryptAsync"}

Derived(e) == e.fn \in Derivations /\ e.result.ok

KdfOf(fn) == IF fn \in {"pbkdf2", "pbkdf2Async"} THEN "pbkdf2" ELSE "scrypt"

\* The salt, cost and iv a call was made with: the caller's, or what the
\* random source returned to the call.
SaltFed(e) ==
    IF e.options.salt = undefined THEN e.rnd.salt ELSE Bytes_from(e.options.salt).value

CostFed(e) == IF e.options.cost = <<>> THEN DefaultCost ELSE e.options.cost[1]

IvFed(e) ==
    IF e.options.iv = undefined THEN e.rnd.iv ELSE Bytes_from(e.options.iv).value

SameDerivation(e, k) ==
    /\ Derived(e) /\ Derived(k)
    /\ KdfOf(e.fn) = KdfOf(k.fn)
    /\ e.options.password = k.options.password
    /\ SaltFed(e) = SaltFed(k)
    /\ CostFed(e) = CostFed(k)
    /\ IvFed(e) = IvFed(k)

Called == last # NoCall

\* The decrypt call was given the record exactly as encrypt returned it.
Untampered == Called /\ last.keystore = store.result

\* The private key that was encrypted, as bytes and in the requested format.
PlainBytes == Bytes_from(store.privateKey).value

Plain(as) == IF as = "Hex" THEN AsHex(Bytes_toHex(PlainBytes)) ELSE AsBytes(PlainBytes)

ReturnedPlain == last.result.ok /\ last.result.value = Plain(last.as)

\* The two halves of a key's material, as far as they exist.
Material(k) == Bytes_fromHex(k.key).value

Bytes(m, from, to) == SubSeq(m, from, IF Len(m) < to THEN Len(m) ELSE to)

CipherHalf(k) == Bytes(Material(k), 1, 16)

MacHalf(k) == Bytes(Material(k), 17, 32)

\* C1: a record decrypted with a key derived again from the same password,
\* salt, cost parameter and iv (by either KDF, the same one both times) yields
\* exactly the bytes of the private key that was encrypted.
C1_RoundTrip ==
    (Untampered /\ SameDerivation(keys[last.slot], keys["A"])) => ReturnedPlain

C1_Witness ==
    /\ Untampered
    /\ last.slot = "B"
    /\ SameDerivation(keys["B"], keys["A"])
    /\ keys["A"].options.salt = undefined
    /\ keys["B"].fn = "scrypt"
    /\ Len(PlainBytes) = 2
    /\ ReturnedPlain

\* The field of the record that was modified, as encrypt wrote it and as it
\* is now.
FieldOf(ks, field) == IF field = "ciphertext" THEN ks.crypto.ciphertext ELSE ks.crypto.mac

Tampered ==
    /\ Called
    /\ store.tampered # "none"
    /\ last.keystore = store.keystore
    /\ last.slot = "A"

OldBytes == Bytes_fromHex(FieldOf(store.result.value, store.tampered))

NewBytes == Bytes_fromHex(FieldOf(store.keystore.value, store.tampered))

\* C2 as stated: whatever different value the ciphertext or the mac field is
\* changed to, decrypt with the encrypting key fails with 'corrupt keystore'.
C2_AnyChangeIsCaught ==
    Tampered => (~last.result.ok /\ last.result.error = "corrupt keystore")

\* C2 amended: a ciphertext or mac field changed to hex that decodes to other
\* bytes makes decrypt with the encrypting key fail with 'corrupt keystore';
\* a field that is no hex fails in the decoder; and decrypt of a modified
\* record never returns anything but the private key that was encrypted.
C2_TamperDetection ==
    Tampered =>
       /\ (NewBytes.ok /\ NewBytes.value # OldBytes.value)
             => (~last.result.ok /\ last.result.error = "corrupt keystore")
       /\ ~NewBytes.ok => ~last.result.ok
       /\ last.result.ok => ReturnedPlain

C2_Witness ==
    /\ Tampered
    /\ store.tampered = "ciphertext"
    /\ NewBytes.ok /\ NewBytes.value # OldBytes.value
    /\ Len(NewBytes.value) = Len(OldBytes.value)
    /\ last.result.error = "corrupt keystore"

\* The MAC of the record under a key, computed as the format defines it.
MacMatches(ks, k) ==
    /\ Bytes_fromHex(ks.crypto.ciphertext).ok
    /\ Bytes_fromHex(ks.crypto.mac).ok
    /\ Hash_keccak256(MacHalf(k) \o Bytes_fromHex(ks.crypto.ciphertext).value)
          = Bytes_fromHex(ks.crypto.mac).value

Position(calls, name) == CHOOSE i \in 1..Len(calls) : calls[i] = name

Made(calls, name) == \E i \in 1..Len(calls) : calls[i] = name

\* C3: in a decrypt call the cipher runs only after the MAC was recomputed
\* and compared, and never when the recomputed MAC differs from the stored one.
C3_VerifyGatesDecrypt ==
    Called =>
       LET calls == last.result.calls
       IN  /\ Made(calls, "ctr") =>
                /\ Made(calls, "keccak256") /\ Made(calls, "isEqual")
                /\ Position(calls, "keccak256") < Position(calls, "isEqual")
                /\ Position(calls, "isEqual") < Position(calls, "ctr")
           /\ ~MacMatches(last.keystore.value, last.key.value) => ~Made(calls, "ctr")

C3_Witness ==
    /\ Called
    /\ Len(Material(last.key.value)) = 32
    /\ ~MacMatches(last.keystore.value, last.key.value)
    /\ last.result.calls = <<"keccak256", "isEqual">>
    /\ last.result.error = "corrupt keystore"

\* C4 as stated: decrypt of a record that encrypt produced, with any key,
\* either fails or returns the private key that was encrypted.
C4_FailsOrReturnsPlain ==
    Untampered => (~last.result.ok \/ ReturnedPlain)

SameCipherInputs(k, j) == k.iv = j.iv /\ CipherHalf(k) = CipherHalf(j)

\* C4 amended: decrypt of a record that encrypt produced either fails and
\* returns nothing, or returns as many bytes as the private key has; these are
\* the private key whenever the key has the iv and the first 16 material bytes
\* of the encrypting key.
C4_AllOrNothing ==
    Untampered =>
       \/ ~last.result.ok /\ last.result.value = undefined
       \/ /\ last.result.ok
          /\ Len(Bytes_from(last.result.value).value) = Len(PlainBytes)
          /\ SameCipherInputs(last.key.value, store.key.value) => ReturnedPlain

C4_Witness ==
    /\ Untampered
    /\ last.slot = "B"
    /\ keys["B"].fn = "literal"
    /\ last.key.value.key # store.key.value.key
    /\ SameCipherInputs(last.key.value, store.key.value)
    /\ Len(PlainBytes) = 2
    /\ ReturnedPlain

\* C5 as stated: a key whose first 32 material bytes differ from the
\* encrypting key's fails with 'corrupt keystore'.
C5_AnyOtherMaterialIsCaught ==
    (Untampered /\ Bytes(Material(last.key.value), 1, 32)
                      # Bytes(Material(store.key.value), 1, 32))
       => (~last.result.ok /\ last.result.error = "corrupt keystore")

\* C5 amended: a key of more than 16 material bytes whose bytes 16..31 differ
\* from the encrypting key's fails with 'corrupt keystore', and decrypt
\* succeeds only with a key whose bytes 16..31 are the encrypting key's.
C5_WrongKeyIsCaught ==
    Untampered =>
       /\ (Len(Material(last.key.value)) > 16
           /\ MacHalf(last.key.value) # MacHalf(store.key.value))
             => (~last.result.ok /\ last.result.error = "corrupt keystore")
       /\ last.result.ok => MacHalf(last.key.value) = MacHalf(store.key.value)

C5_Witness ==
    /\ Untampered
    /\ last.slot = "B"
    /\ Derived(keys["B"])
    /\ keys["B"].options.password # keys["A"].options.password
    /\ SaltFed(keys["B"]) = SaltFed(keys["A"])
    /\ MacHalf(last.key.value) # MacHalf(store.key.value)
    /\ last.result.error = "corrupt keystore"

\* C6: two calls of the same derivation with the same password, the same
\* supplied salt and the same cost parameter return the same material, the
\* same kdf tag and the same kdfparams.
C6_Determinism ==
    (/\ Derived(keys["A"]) /\ Derived(keys["B"])
     /\ keys["A"].fn = keys["B"].fn
     /\ keys["A"].options.password = keys["B"].options.password
     /\ keys["A"].options.salt # undefined
     /\ keys["A"].options.salt = keys["B"].options.salt
     /\ keys["A"].options.cost = keys["B"].options.cost)
       => /\ keys["A"].result.value.key = keys["B"].result.value.key
          /\ keys["A"].result.value.kdf = keys["B"].result.value.kdf
          /\ keys["A"].result.value.kdfparams = keys["B"].result.value.kdfparams

C6_Witness ==
    /\ Derived(keys["A"]) /\ Derived(keys["B"])
    /\ keys["A"].fn = "scryptAsync" /\ keys["B"].fn = "scryptAsync"
    /\ keys["A"].options.salt = AsHex(<<"A", "b">>)
    /\ keys["B"].options.salt = AsHex(<<"A", "b">>)
    /\ keys["A"].options.cost = keys["B"].options.cost
    /\ keys["A"].result.value.iv # keys["B"].result.value.iv
    /\ keys["A"].result.value.key = keys["B"].result.value.key

Twins(f, g) ==
    \/ {f, g} = {"pbkdf2", "pbkdf2Async"}
    \/ {f, g} = {"scrypt", "scryptAsync"}

\* C7: a blocking derivation and its non-blocking twin, called with the same
\* password, salt, cost parameter and iv, return equal keys: the same
\* material, iv, kdf and kdfparams.
C7_AsyncEqualsSync ==
    (/\ Derived(keys["A"]) /\ Derived(keys["B"])
     /\ Twins(keys["A"].fn, keys["B"].fn)
     /\ keys["A"].options.password = keys["B"].options.password
     /\ keys["A"].options.cost = keys["B"].options.cost
     /\ SaltFed(keys["A"]) = SaltFed(keys["B"])
     /\ IvFed(keys["A"]) = IvFed(keys["B"]))
       => keys["A"].result = keys["B"].result

C7_Witness ==
    /\ Derived(keys["A"]) /\ Derived(keys["B"])
    /\ keys["A"].fn = "pbkdf2" /\ keys["B"].fn = "pbkdf2Async"
    /\ keys["A"].options = keys["B"].options
    /\ keys["A"].options.salt = AsHex(<<"A", "b">>)
    /\ keys["A"].options.iv = AsHex(UpperIv)
    /\ keys["A"].options.cost = <<2>>
    /\ keys["A"].result = keys["B"].result

\* The key of a derivation records the salt and the cost parameter the KDF
\* was run with, and its material is the KDF's output for them.
MetadataFaithful(e) ==
    LET k == e.result.value
    IN  /\ k.kdf = KdfOf(e.fn)
        /\ Bytes_fromHex(k.kdfparams.salt) = Ok(SaltFed(e))
        /\ IF k.kdf = "pbkdf2"
           THEN /\ k.kdfparams.c = CostFed(e)
                /\ Material(k) = pbkdf2_noble(e.options.password, SaltFed(e),
                                              CostFed(e), 32)
           ELSE /\ k.kdfparams.n = CostFed(e)
                /\ Material(k) = scrypt_noble(e.options.password, SaltFed(e),
                                              CostFed(e), 32, ScryptR, ScryptP)

\* C8: the record carries the kdf and kdfparams of the key it was encrypted
\* with, and the kdfparams of a derived key are the cost parameter and the
\* salt that produced its material.
C8_MetadataFidelity ==
    /\ \A s \in Slots : Derived(keys[s]) => MetadataFaithful(keys[s])
    /\ store.result.ok =>
          /\ store.result.value.crypto.kdf = store.key.value.kdf
          /\ store.result.value.crypto.kdfparams = store.key.value.kdfparams

C8_Witness ==
    /\ store.result.ok
    /\ keys["A"].fn = "pbkdf2"
    /\ store.result.value.crypto.kdf = "pbkdf2"
    /\ store.result.value.crypto.kdfparams.c = 2
    /\ store.result.value.crypto.kdfparams.salt = Bytes_toHex(RandomBytes(32, 2))
    /\ Derived(keys["B"])
    /\ keys["B"].result.value.kdfparams.salt = <<"a", "b">>

\* C9: the iv of a derived key is the caller's iv, or else the 16 random
\* bytes drawn in the derivation; encrypt and decrypt run the cipher with the
\* key's iv and leave the key as it was, and the record's cipherparams.iv is
\* the key's iv.
C9_IvFixedAtDerivation ==
    /\ \A s \in Slots : Derived(keys[s]) =>
          /\ keys[s].result.value.iv = IvFed(keys[s])
          /\ keys[s].options.iv = undefined
                => keys[s].result.value.iv \in Bytes_random(16)
    /\ store # NoStore => store.key = keys["A"].result
    /\ store.result.ok =>
          /\ store.result.value.crypto.cipherparams.iv = Bytes_toHex(store.key.value.iv)
          /\ Bytes_fromHex(store.result.value.crypto.ciphertext)
                = ctr(CipherHalf(store.key.value), store.key.value.iv, PlainBytes)
    /\ Called =>
          /\ last.key = keys[last.slot].result
          /\ last.result.ok =>
                Ok(Bytes_from(last.result.value).value)
                   = ctr(CipherHalf(last.key.value), last.key.value.iv,
                         Bytes_fromHex(last.keystore.value.crypto.ciphertext).value)

C9_Witness ==
    /\ Called
    /\ last.slot = "A"
    /\ keys["A"].options.iv = AsHex(UpperIv)
    /\ keys["A"].result.value.iv = [i \in 1..16 |-> 10]
    /\ store.result.value.crypto.cipherparams.iv = [i \in 1..32 |-> IF i % 2 = 1 THEN "0" ELSE "a"]
    /\ Len(PlainBytes) = 2
    /\ ReturnedPlain

WrongLength(k) == Len(k.iv) # 16 \/ Len(Material(k)) # 32

\* C10: a key whose iv is not 16 bytes or whose material is not 32 bytes is
\* rejected by the operation that receives it: the derivation that is given the
\* iv, encrypt, decrypt.
C10_LengthsEnforced ==
    /\ \A s \in Slots :
          (/\ keys[s].fn \in Derivations
           /\ keys[s].options.iv # undefined
           /\ Len(Bytes_from(keys[s].options.iv).value) # 16) => ~keys[s].result.ok
    /\ (store # NoStore /\ WrongLength(store.key.value)) => ~store.result.ok
    /\ (Called /\ WrongLength(last.key.value)) => ~last.result.ok

\* C11: decrypt of a record whose version is not 3 fails and returns no
\* plaintext, even when its ciphertext and mac are valid for the key.
C11_UnsupportedVersionRejected ==
    (Called /\ last.keystore.value.version # 3)
       => (~last.result.ok /\ last.result.value = undefined)

WellFormed(ks) ==
    /\ ks.crypto.cipher = "aes-128-ctr"
    /\ ks.crypto.kdf \in {"pbkdf2", "scrypt"}
    /\ Bytes_fromHex(ks.crypto.mac).ok
    /\ Len(Bytes_fromHex(ks.crypto.mac).value) = 32

\* C12: decrypt of a record whose cipher is not 'aes-128-ctr', whose kdf is
\* neither 'pbkdf2' nor 'scrypt', or whose mac is not 32 bytes fails and
\* produces no plaintext.
C12_MalformedRejected ==
    (Called /\ ~WellFormed(last.keystore.value))
       => (~last.result.ok /\ last.result.value = undefined)

\* C13: every keystore returned by encrypt has crypto.cipher = 'aes-128-ctr'
\* and version = 3, whatever the private key, the key and the id.
C13_FixedLiterals ==
    store.result.ok =>
       /\ store.result.value.crypto.cipher = "aes-128-ctr"
       /\ store.result.value.version = 3

C13_Witness ==
    /\ store.result.ok
    /\ keys["A"].fn = "scrypt"
    /\ store.id = <<<<"my-id", 0>>>>
    /\ store.privateKey = AsHex(<<"A", "1", "b">>)
    /\ store.result.value.version = 3

\* C14: the material of every key returned by pbkdf2, pbkdf2Async, scrypt or
\* scryptAsync is exactly 32 bytes, and its kdfparams.dklen is 32.
C14_Material32Bytes ==
    \A s \in Slots : Derived(keys[s]) =>
       /\ Bytes_fromHex(keys[s].result.value.key).ok
       /\ Len(Material(keys[s].result.value)) = 32
       /\ Len(keys[s].result.value.key) = 64
       /\ keys[s].result.value.kdfparams.dklen = 32

C14_Witness ==
    /\ Derived(keys["A"]) /\ Derived(keys["B"])
    /\ keys["A"].fn = "scrypt" /\ keys["B"].fn = "pbkdf2Async"
    /\ keys["A"].options.password = <<>>
    /\ keys["A"].options.salt = AsBytes(<<>>)
    /\ keys["A"].options.cost = <<>>
    /\ Len(Material(keys["A"].result.value)) = 32
    /\ Len(Material(keys["B"].result.value)) = 32

\* C15: whatever options scrypt or scryptAsync is called with, options that
\* carry r or p included, the derivation runs with r = 1 and p = 8 and the
\* kdfparams of the key record r = 1 and p = 8.
C15_ScryptRPFixed ==
    \A s \in Slots :
       /\ pending[s].fn = "scryptAsync" =>
             pending[s].call.value.r = 1 /\ pending[s].call.value.p = 8
       /\ (keys[s].fn \in {"scrypt", "scryptAsync"} /\ keys[s].result.ok) =>
             /\ keys[s].result.value.kdfparams.r = 1
             /\ keys[s].result.value.kdfparams.p = 8
             /\ Material(keys[s].result.value)
                   = scrypt_noble(keys[s].options.password, SaltFed(keys[s]),
                                  CostFed(keys[s]), 32, 1, 8)

C15_Witness ==
    /\ keys["A"].fn = "scryptAsync"
    /\ keys["A"].result.ok
    /\ "r" \in DOMAIN keys["A"].options
    /\ keys["A"].options.r = 4 /\ keys["A"].options.p = 2
    /\ keys["A"].result.value.kdfparams.r = 1
    /\ keys["A"].result.value.kdfparams.p = 8

\* A non-blocking derivation run on its own, from its call to its return,
\* with the given options and random draws.
RunAlone(fn, options, rnd) ==
    LET call == IF fn = "pbkdf2Async" THEN pbkdf2Async_call(options, rnd.salt)
                ELSE scryptAsync_call(options, rnd.salt)
    IN  IF ~call.ok THEN Err(call.error)
        ELSE IF fn = "pbkdf2Async" THEN pbkdf2Async_resume(call.value, rnd.iv)
        ELSE scryptAsync_resume(call.value, rnd.iv)

\* C16: however the steps of pending pbkdf2Async and scryptAsync calls and of
\* encrypt and decrypt calls interleave, each call holds and returns what it
\* does when run alone with the same inputs and the same random draws.
C16_CallsIndependent ==
    /\ \A s \in Slots :
          /\ pending[s] # NoPending =>
                pending[s].call
                   = IF pending[s].fn = "pbkdf2Async"
                     THEN pbkdf2Async_call(pending[s].options, pending[s].rnd.salt)
                     ELSE scryptAsync_call(pending[s].options, pending[s].rnd.salt)
          /\ keys[s] # NoKey =>
                keys[s].result = RunAlone(keys[s].fn, keys[s].options, keys[s].rnd)
    /\ store # NoStore =>
          /\ store.key = keys["A"].result
          /\ store.keystore = store.result
          /\ \E rndId \in crypto_randomUUID :
                store.result = encrypt(store.privateKey, store.key.value,
                                       store.id, rndId)
    /\ Called =>
          /\ last.key = keys[last.slot].result
          /\ last.keystore = store.result
          /\ last.result = decrypt(last.keystore.value, last.key.value, last.as)

C16_Witness ==
    /\ pending["A"].fn = "pbkdf2Async"
    /\ pending["A"].options.salt = AsHex(<<"A", "b">>)
    /\ keys["B"].fn = "pbkdf2Async"
    /\ keys["B"].options.salt = undefined
    /\ keys["B"].options.iv = undefined
    /\ keys["B"].result.ok
    /\ keys["B"].result.value.kdfparams.salt = Bytes_toHex(RandomBytes(32, 2))
    /\ keys["B"].result.value.iv = RandomBytes(16, 1)

\* A key with all of its parts: 32 bytes of material, an iv, the kdf tag and
\* the kdfparams of that kdf.
Complete(k) ==
    /\ DOMAIN k = {"iv", "key", "kdfparams", "kdf"}
    /\ Len(k.key) = 64 /\ Bytes_fromHex(k.key).ok
    /\ Len(k.iv) = 16
    /\ \/ k.kdf = "pbkdf2" /\ DOMAIN k.kdfparams = {"c", "dklen", "prf", "salt"}
       \/ k.kdf = "scrypt" /\ DOMAIN k.kdfparams = {"dklen", "n", "p", "r", "salt"}

\* C17: a started pbkdf2Async or scryptAsync call eventually resolves or
\* rejects; when it resolves the key is complete; and no step drops a pending
\* derivation without settling it.
C17_EventualCompletion ==
    /\ \A s \in Slots :
          (pending[s] # NoPending) ~> (pending[s] = NoPending /\ keys[s] # NoKey)
    /\ [](\A s \in Slots :
             (keys[s].fn \in {"pbkdf2Async", "scryptAsync"} /\ keys[s].result.ok)
                => Complete(keys[s].result.value))
    /\ [][\A s \in Slots :
             pending[s] # NoPending =>
                \/ pending'[s] = pending[s] /\ keys'[s] = keys[s]
                \/ /\ pending'[s] = NoPending
                   /\ keys'[s].fn = pending[s].fn
                   /\ keys'[s].options = pending[s].options]_vars

C17_Witness ==
    /\ keys["A"].fn = "scryptAsync"
    /\ keys["A"].result.ok
    /\ Complete(keys["A"].result.value)
    /\ keys["B"].fn = "pbkdf2Async"
    /\ ~keys["B"].result.ok
    /\ pending = [s \in Slots |-> NoPending]

\* The MAC as the format lays it out: Keccak-256 of the MAC key followed by
\* the ciphertext.
MacOf(k, ciphertext) == Hash_keccak256(MacHalf(k) \o ciphertext)

\* C18: encrypt and decrypt both take bytes 0..15 of the material as the
\* cipher key and bytes 16..31 as the MAC key, and both compute the MAC as
\* Keccak-256 of the MAC key followed by the ciphertext; so decrypt with the
\* encrypting key recomputes the mac that encrypt stored.
C18_SplitAndMacAgree ==
    /\ store.result.ok =>
          LET K == store.key.value
              c == store.result.value.crypto
          IN  /\ Bytes_fromHex(c.ciphertext) = ctr(CipherHalf(K), K.iv, PlainBytes)
              /\ Bytes_fromHex(c.mac)
                    = Ok(MacOf(K, Bytes_fromHex(c.ciphertext).value))
    /\ (Called /\ Made(last.result.calls, "isEqual")) =>
          LET K == last.key.value
              c == last.keystore.value.crypto
          IN  /\ (last.result.error = "corrupt keystore")
                    <=> (Bytes_fromHex(c.mac).value
                            # MacOf(K, Bytes_fromHex(c.ciphertext).value))
              /\ last.result.ok =>
                    Ok(Bytes_from(last.result.value).value)
                       = ctr(CipherHalf(K), K.iv, Bytes_fromHex(c.ciphertext).value)
    /\ (Untampered /\ last.key = store.key) =>
          /\ Made(last.result.calls, "ctr")
          /\ ReturnedPlain

C18_Witness ==
    /\ Untampered
    /\ last.slot = "A"
    /\ last.key = store.key
    /\ Len(PlainBytes) = 2
    /\ Bytes_fromHex(store.result.value.crypto.mac).value
          = MacOf(last.key.value, Bytes_fromHex(store.result.value.crypto.ciphertext).value)
    /\ last.result.calls = <<"keccak256", "isEqual", "ctr">>
    /\ ReturnedPlain

\* The record handed to decrypt has the ciphertext and the mac that encrypt
\* wrote, and the key handed to decrypt has the material of the encrypting key.
SameCipherAndMac ==
    /\ Called
    /\ last.keystore.value.crypto.ciphertext = store.result.value.crypto.ciphertext
    /\ last.keystore.value.crypto.mac = store.result.value.crypto.mac

SameMaterial == Called /\ last.key.value.key = store.key.value.key

\* C19: decrypt with a key that has the material of the encrypting key passes
\* the MAC check whatever the key's iv and the record's cipherparams.iv are;
\* what it returns is the CTR transform of the ciphertext under the key's iv,
\* which is the private key when that iv is the encrypting key's.
C19_IvFromKey ==
    (SameCipherAndMac /\ SameMaterial) =>
       /\ Made(last.result.calls, "ctr")
       /\ last.result.error # "corrupt keystore"
       /\ Len(last.key.value.iv) = 16 =>
             /\ last.result.ok
             /\ Ok(Bytes_from(last.result.value).value)
                   = ctr(CipherHalf(last.key.value), last.key.value.iv,
                         Bytes_fromHex(last.keystore.value.crypto.ciphertext).value)
       /\ last.key.value.iv = store.key.value.iv => ReturnedPlain

C19_Witness ==
    /\ SameCipherAndMac /\ SameMaterial
    /\ store.tampered = "cipherparams.iv"
    /\ last.keystore.value.crypto.cipherparams.iv = Bytes_toHex(ZeroIv)
    /\ last.key.value.iv = store.key.value.iv
    /\ last.key.value.iv # ZeroIv
    /\ Len(PlainBytes) = 2
    /\ ReturnedPlain

\* A record and a key without their kdf and kdfparams.
NoKdf(r) == [r EXCEPT !.kdf = "", !.kdfparams = <<>>]

\* C20: the outcome of decrypt does not depend on the kdf and kdfparams of the
\* key or of the record; with the material and iv of the encrypting key it
\* returns the private key even when the key's kdf and kdfparams differ from
\* the record's.
C20_NoKdfCrossCheck ==
    Called =>
       /\ last.result
             = decrypt([last.keystore.value EXCEPT !.crypto = NoKdf(@)],
                       NoKdf(last.key.value), last.as)
       /\ (/\ SameCipherAndMac /\ SameMaterial
           /\ last.key.value.iv = store.key.value.iv) => ReturnedPlain

C20_Witness ==
    /\ SameCipherAndMac /\ SameMaterial
    /\ last.slot = "B"
    /\ last.key.value.iv = store.key.value.iv
    /\ last.key.value.kdf # last.keystore.value.crypto.kdf
    /\ last.key.value.kdfparams # last.keystore.value.crypto.kdfparams
    /\ Len(PlainBytes) = 2
    /\ ReturnedPlain

\* C21: the ciphertext of the record decodes to as many bytes as the private
\* key has, zero and lengths that are no multiple of 16 included, and the mac
\* decodes to 32 bytes.
C21_CiphertextPreservesLength ==
    store.result.ok =>
       LET c == store.result.value.crypto
       IN  /\ Bytes_fromHex(c.ciphertext).ok
           /\ Len(c.ciphertext) = 2 * Len(PlainBytes)
           /\ Len(Bytes_fromHex(c.ciphertext).value) = Len(PlainBytes)
           /\ Bytes_fromHex(c.mac).ok
           /\ Len(c.mac) = 64
           /\ Len(Bytes_fromHex(c.mac).value) = 32

C21_Witness ==
    /\ store.result.ok
    /\ store.privateKey = AsHex(<<"A", "1", "b">>)
    /\ Len(PlainBytes) = 2
    /\ Len(store.result.value.crypto.ciphertext) = 4
    /\ Len(store.result.value.crypto.mac) = 64

\* C22: a zero-length password and a zero-length salt given by the caller are
\* accepted by the four derivations; the empty salt is the one the KDF runs
\* with and kdfparams.salt is the empty string; 32 random bytes are the salt
\* only when the caller gives none.
C22_ZeroLengthInputs ==
    \A s \in Slots : keys[s].fn \in Derivations =>
       LET o == keys[s].options
           k == keys[s].result.value
       IN  /\ (o.password = <<>> /\ (o.salt = undefined \/ Bytes_from(o.salt).ok))
                 => keys[s].result.ok
           /\ (o.salt # undefined /\ Bytes_from(o.salt) = Ok(<<>>)) =>
                 /\ keys[s].result.ok
                 /\ k.kdfparams.salt = <<>>
                 /\ Material(k)
                       = IF KdfOf(keys[s].fn) = "pbkdf2"
                         THEN pbkdf2_noble(o.password, <<>>, CostFed(keys[s]), 32)
                         ELSE scrypt_noble(o.password, <<>>, CostFed(keys[s]), 32,
                                           ScryptR, ScryptP)
           /\ keys[s].result.ok =>
                 IF o.salt = undefined
                 THEN k.kdfparams.salt \in {Bytes_toHex(b) : b \in Bytes_random(32)}
                 ELSE k.kdfparams.salt = Bytes_toHex(Bytes_from(o.salt).value)

C22_Witness ==
    /\ Derived(keys["A"]) /\ Derived(keys["B"])
    /\ keys["A"].fn = "pbkdf2" /\ keys["B"].fn = "scryptAsync"
    /\ keys["A"].options.password = <<>>
    /\ keys["A"].options.salt = AsBytes(<<>>)
    /\ keys["B"].options.salt = AsBytes(<<>>)
    /\ keys["A"].result.value.kdfparams.salt = <<>>
    /\ keys["B"].result.value.kdfparams.salt = <<>>

\* C23: two encrypt calls with the same private key and the same key return
\* records with the same ciphertext, cipherparams.iv, kdf, kdfparams and mac;
\* the ids differ only when no id is given; the iv and salt are the key's.
C23_EncryptDeterministic ==
    store.tampered = "again" =>
       LET first == store.result.value
           second == store.keystore.value
       IN  /\ store.keystore.ok
           /\ second.crypto = first.crypto
           /\ second.version = first.version
           /\ second.id # first.id => store.id = <<>>
           /\ second.crypto.cipherparams.iv = Bytes_toHex(store.key.value.iv)
           /\ second.crypto.kdfparams.salt = store.key.value.kdfparams.salt

C23_Witness ==
    /\ store.tampered = "again"
    /\ store.id = <<>>
    /\ store.keystore.value.id # store.result.value.id
    /\ store.keystore.value.crypto = store.result.value.crypto
    /\ Len(PlainBytes) = 2
    /\ Called /\ last.keystore = store.keystore /\ ReturnedPlain

\* C24: once the page has rendered the hash stored last, its effect has run
\* and every lookup has settled, that of this hash with a receipt, the stored
\* receipt is the receipt of this hash; a lookup for an older hash that
\* resolves late does not replace the receipt of a newer hash.
C24_ReceiptOfLatestHash ==
    (/\ evm.hash # <<>>
     /\ evm.rendered = EvmState
     /\ evm.effect = <<>>
     /\ evm.lookups = {}
     /\ evm.hash[1] \in evm.resolved)
       => evm.receipt = <<ReceiptOf(evm.hash[1])>>

\* C25: the callback of a 3-second timer erases only the message its own
\* handler wrote; a status another handler wrote afterwards stays displayed
\* when the timer fires.
C25_TimerErasesOwnMessage ==
    [][(/\ aptos'.step = "setTimeout"
        /\ aptos.timers # <<>>
        /\ aptos'.timers = Tail(aptos.timers)
        /\ aptos.txStatus # Head(aptos.timers).message)
          => aptos'.txStatus = aptos.txStatus]_vars

\* What handleSendTokens requires of connected, account, amount and
\* recipientAddress, the variables of the render it belongs to.
MaySendRendered ==
    /\ aptos.rendered.connected
    /\ aptos.rendered.account # <<>>
    /\ aptos.rendered.amount # ""
    /\ aptos.rendered.recipientAddress # ""

FormUnchanged ==
    /\ aptos'.amount = aptos.amount
    /\ aptos'.recipientAddress = aptos.recipientAddress

\* The amount and the recipient are cleared only by the confirmation and are
\* left as they are by a failed submission or confirmation.
FormClearedOnConfirmation ==
    /\ aptos'.step \in {"handleSendTokens", "handleSendTokens_refuse",
                        "signAndSubmitTransaction_resolve",
                        "signAndSubmitTransaction_reject",
                        "waitForTransaction_reject"}
         => FormUnchanged
    /\ aptos'.step = "waitForTransaction_resolve"
         => aptos'.amount = "" /\ aptos'.recipientAddress = ""
    /\ ~FormUnchanged
         => aptos'.step \in {"waitForTransaction_resolve", "setAmount",
                             "setRecipientAddress"}

Submits == aptos'.submitted # aptos.submitted

Refuses ==
    /\ aptos'.step = "handleSendTokens_refuse"
    /\ aptos'.txStatus = "Please connect wallet and fill all fields"
    /\ aptos'.submitted = aptos.submitted
    /\ aptos'.calls = aptos.calls

\* C26: handleSendTokens hands a transaction to signAndSubmitTransaction only
\* when connected is true, account is set and amount and recipientAddress are
\* not empty, these being the variables the handler tests, the values of the
\* last render; otherwise it sets 'Please connect wallet and fill all fields'
\* and submits nothing.  Only the confirmation clears the form; a failed
\* submission or a failed confirmation leaves it as it is.
C26_SendGuarded ==
    [][/\ Submits => MaySendRendered /\ aptos'.step = "handleSendTokens"
       /\ aptos'.step = "handleSendTokens" => MaySendRendered /\ Submits
       /\ aptos'.step = "handleSendTokens_refuse" => ~MaySendRendered /\ Refuses
       /\ FormClearedOnConfirmation]_vars

\* A transaction was submitted with the connection, the account, the amount
\* and the recipient the handler saw.
C26_Witness ==
    /\ aptos.step = "handleSendTokens"
    /\ Len(aptos.submitted) > 0
    /\ aptos.submitted[Len(aptos.submitted)].connected
    /\ aptos.submitted[Len(aptos.submitted)].account = <<PetraAccount>>
    /\ aptos.submitted[Len(aptos.submitted)].amount = "1.5"
    /\ aptos.submitted[Len(aptos.submitted)].recipientAddress = "0xb0b"
    /\ aptos.txStatus = "Please approve the transaction in your wallet..."

\* C27: connected is true exactly when account is set, in every state of the
\* page, whatever the order of checkConnection, handleConnect and
\* handleDisconnect and whichever of the wallet's calls rejects.
C27_ConnectedIffAccount ==
    /\ aptos.connected <=> aptos.account # <<>>
    /\ aptos.rendered.connected <=> aptos.rendered.account # <<>>

C27_Witness ==
    /\ aptos.step = "handleDisconnect_reject"
    /\ aptos.connected
    /\ aptos.account = <<PetraAccount>>
====
